---- MODULE Spec2Model ----
(***************************************************************************)
(* Model of the Shopify sales-report service (api/sales-report.js): the    *)
(* report cache, the rate-limited/retried fetch client, the paginated      *)
(* order collector, the aggregator, the inventory enricher and the         *)
(* reorder-point calculator.                                               *)
(*                                                                         *)
(* Each subsystem has its own specification over its own variables; the    *)
(* variables of the other subsystems stay at their idle values.            *)
(*   SpecROP      computeROP on bounded inputs                             *)
(*   SpecFetch    one report request: order collection, retries, response  *)
(*   SpecHandler  two requests of one process sharing the report cache     *)
(*   SpecAgg      aggregation of bounded order lists                       *)
(*   SpecEnrich   enrichment under failing lookups and varied stock        *)
(*   SpecEquiv    REST and GraphQL enrichment of the same orders           *)
(*   SpecABC      computeABCAnalysis on bounded lists of rows              *)
(*   SpecDead     detectDeadStock under partial order collection           *)
(*   SpecLimiter  two requests calling through the shared rate limiter     *)
(*   SpecCursor   the cursor-based collector of the GraphQL handler         *)
(*   SpecReorder  the reorder list of the handler and its rendered table   *)
(*   SpecReport   aggregated rows handed to the ABC classifier             *)
(*   SpecMail     HTML, preview and email outputs, cached or built         *)
(*   SpecCron     the daily, weekly and monthly sends of the cron          *)
(*   SpecDaily    dead stock in a daily run of the handler                 *)
(***************************************************************************)
EXTENDS Integers, Sequences, FiniteSets, TLC

\* The JavaScript null / undefined of a field that holds no value: of a
\* string-valued, a record-valued and a tuple-valued field.
Null == "null"
NoObject == [null |-> TRUE]
NoKey == << >>

Max(a, b) == IF a >= b THEN a ELSE b
Min(a, b) == IF a <= b THEN a ELSE b

\* Math.ceil(a / b) for b > 0, on exact quotients.
CeilDiv(a, b) == -((-a) \div b)

\* Number.prototype.toFixed: a / b rounded to a whole number of 1/scale units.
ToFixed(a, b, scale) == (2 * a * scale + b) \div (2 * b)

VARIABLES
    \* ---- computeROP harness
    ropIn,          \* the argument object {sales30d, onHand, leadDays, safetyDays}
    ropEnv,         \* process.env.ROP_LEAD_DAYS / ROP_SAFETY_DAYS (0: unset or NaN)
    ropOut,         \* the returned object, NoObject before the call
    ropPc,          \* "input" | "done"
    \* ---- handler -> fetchOrdersPaidInRange -> safeShopifyCall
    period,         \* req.query.period
    fpc,            \* position: start | loop | attempt | backoff | collected | done
    pageCount,      \* fetchOrdersPaidInRange: pageCount
    pagesRequested, \* pages for which safeShopifyCall was invoked
    out,            \* fetchOrdersPaidInRange: out.length
    retryI,         \* safeShopifyCall: i
    attempts,       \* safeShopifyCall: times fn() ran in the current call
    callErrs,       \* safeShopifyCall: the errors caught in the current call
    callWaits,      \* safeShopifyCall: the backoff delays slept in the current call
    callResult,     \* what the last finished call returned: "ok" | Null | "throw"
    failedPages,    \* the pages whose call returned null
    response,       \* the HTTP response of the handler, NoObject until sent
    \* ---- the report cache and the requests of one process
    reportCache,    \* the Map, as its entries in insertion (= iteration) order
    now,            \* Date.now(), ms of local time since 2024-01-01T00:00
    ticks,          \* how many times the clock has advanced
    req,            \* per request: position, query flags, locals, response
    cur,            \* the request whose synchronous code is running, or NoOne
    \* ---- processProductsComplete and the aggregation of the GraphQL handler
    orders,         \* the collected orders (the argument)
    includeAllLocations,
    levels,         \* what /inventory_levels.json holds: item, location, available
    locationsCache, \* globalCache.locations, as the ids of the cached locations
    failed,         \* the lookups that fail (safeShopifyCall returns null)
    rows,           \* processProductsComplete: rows, as returned
    variantInfo,    \* processProductsComplete: variantInfo
    invLevels,      \* processProductsComplete: invLevels
    gqlRows,        \* GraphQL handler: rows
    ppc,            \* "input" | "enriched"
    gpc,            \* "input" | "aggregated"
    gqlEnriched,    \* processProductsCompleteGraphQL: rows, as returned
    epc,            \* "input" | "enriched"
    \* ---- computeABCAnalysis and detectDeadStock
    abcIn,          \* computeABCAnalysis: rows (the argument), as their revenues
    abcData,        \* computeABCAnalysis: the rows returned
    apc,            \* "input" | "done"
    deadIn,         \* detectDeadStock: the arguments and what the shop answers
    deadStock,      \* detectDeadStock: the list returned
    dpc,            \* "input" | "done"
    \* ---- the shared ShopifyRateLimiter and the requests that call it
    lastCall,       \* rateLimiter.lastCall
    callCount,      \* rateLimiter.callCount
    clock,          \* Date.now()
    clockTicks,     \* how many times the clock has advanced
    caller,         \* per request: position in safeShopifyCall, timer, calls made
    released,       \* the times at which waitIfNeeded returned, in order
    \* ---- fetchOrdersWithLines
    cursor,         \* fetchOrdersWithLines: the cursor of the next request (0: null)
    hasNext,        \* the loop condition
    cursorPages,    \* requests sent by the loop
    linesOut,       \* out.length
    cpc,             \* "loop" | "done" | "threw"
    \* ---- the reorder list
    reportRows,     \* handler: rows, as processProductsComplete returned them
    sales30,        \* handler: units sold in the last 30 days by variant
    ropRows,        \* handler: the reorder list
    sortedRows,     \* renderROPTable: the rows in the order of the table
    rpc,             \* "input" | "built" | "rendered"
    \* ---- the outputs of the handler
    mailCache,      \* the reportCache entry of the one key asked for
    mailReq,        \* the query flags of the request being served
    mailRes,        \* the response to the last request served
    mailServed,     \* requests served so far
    mpc,             \* "wait" | "read" | "build"
    \* ---- the cron
    cronNow,        \* smart-report.js: now, the hour (UTC) the cron runs in
    results,        \* smart-report.js: results, with the range each report covered
    kpc             \* "daily" | "weekly" | "monthly" | "respond" | "done"

ropVars == <<ropIn, ropEnv, ropOut, ropPc>>
fetchVars == <<period, fpc, pageCount, pagesRequested, out, retryI, attempts,
               callErrs, callWaits, callResult, failedPages, response>>

cacheVars == <<reportCache, now, ticks, req, cur>>

prodVars == <<orders, includeAllLocations, levels, locationsCache, failed,
              rows, variantInfo, invLevels, gqlRows, ppc, gpc, gqlEnriched, epc>>

analysisVars == <<abcIn, abcData, apc, deadIn, deadStock, dpc>>

limiterVars == <<lastCall, callCount, clock, clockTicks, caller, released>>

cursorVars == <<cursor, hasNext, cursorPages, linesOut, cpc>>

reorderVars == <<reportRows, sales30, ropRows, sortedRows, rpc>>

mailVars == <<mailCache, mailReq, mailRes, mailServed, mpc>>

cronVars == <<cronNow, results, kpc>>

vars == <<ropVars, fetchVars, cacheVars, prodVars, analysisVars,
         limiterVars, cursorVars, reorderVars, mailVars, cronVars>>

\* The idle values of each subsystem's variables.
IdleROP ==
    /\ ropIn = NoObject /\ ropEnv = NoObject /\ ropOut = NoObject /\ ropPc = "idle"

IdleFetch ==
    /\ period = Null /\ fpc = "idle" /\ pageCount = 0 /\ pagesRequested = 0
    /\ out = 0 /\ retryI = 0 /\ attempts = 0 /\ callErrs = << >>
    /\ callWaits = << >> /\ callResult = Null /\ failedPages = {}
    /\ response = NoObject

IdleCache ==
    /\ reportCache = << >> /\ now = 0 /\ ticks = 0 /\ req = << >> /\ cur = Null

IdleProducts ==
    /\ orders = << >> /\ includeAllLocations = FALSE /\ levels = << >>
    /\ locationsCache = {} /\ failed = {} /\ rows = << >>
    /\ variantInfo = << >> /\ invLevels = << >> /\ gqlRows = << >>
    /\ ppc = "idle" /\ gpc = "idle" /\ gqlEnriched = << >> /\ epc = "idle"

IdleAnalysis ==
    /\ abcIn = << >> /\ abcData = << >> /\ apc = "idle"
    /\ deadIn = NoObject /\ deadStock = << >> /\ dpc = "idle"

IdleLimiter ==
    /\ lastCall = 0 /\ callCount = 0 /\ clock = 0 /\ clockTicks = 0
    /\ caller = << >> /\ released = << >>

IdleCron ==
    /\ cronNow = 0 /\ results = << >> /\ kpc = "idle"

IdleMail ==
    /\ mailCache = NoObject /\ mailReq = NoObject /\ mailRes = NoObject
    /\ mailServed = 0 /\ mpc = "idle"

IdleReorder ==
    /\ reportRows = << >> /\ sales30 = << >> /\ ropRows = << >>
    /\ sortedRows = << >> /\ rpc = "idle"

IdleCursor ==
    /\ cursor = 0 /\ hasNext = FALSE /\ cursorPages = 0 /\ linesOut = 0
    /\ cpc = "idle"

(***************************************************************************)
(* computeROP                                                              *)
(***************************************************************************)
MaxSales == 60
MaxOnHand == 21
MaxLeadDays == 7
MaxSafetyDays == 3
\* the value of ROP_LEAD_DAYS / ROP_SAFETY_DAYS when the environment sets them
EnvLeadDays == 10
EnvSafetyDays == 5

DefaultLeadDays == 7
DefaultSafetyDays == 3
ReviewDays == 14
VelocityWindow == 30

\* a || b || c on numbers: the first operand that is not 0 (nor NaN, modelled 0)
OrElse(a, b, c) == IF a # 0 THEN a ELSE IF b # 0 THEN b ELSE c

\* computeROP, with dailyVel kept as the exact quotient velNum / 30.
computeROP(arg, env) ==
    LET realLeadDays   == OrElse(arg.leadDays, env.lead, DefaultLeadDays)
        realSafetyDays == OrElse(arg.safetyDays, env.safety, DefaultSafetyDays)
        velNum   == Max(0, arg.sales30d)
        rop      == CeilDiv(velNum * (realLeadDays + realSafetyDays), VelocityWindow)
        target   == CeilDiv(velNum * (realLeadDays + realSafetyDays + ReviewDays),
                            VelocityWindow)
        finite   == velNum > 0
        qty      == Max(0, target - arg.onHand)
        \* coverage <= d  <=>  onHand / (velNum/30) <= d
        covLeq(d) == finite /\ arg.onHand * VelocityWindow <= d * velNum
        urgency  == IF covLeq(realLeadDays) THEN "critical"
                    ELSE IF covLeq(realLeadDays + realSafetyDays) THEN "high"
                    ELSE "medium"
    IN  [ dailyVel |-> ToFixed(velNum, VelocityWindow, 100),   \* hundredths
          rop      |-> rop,
          target   |-> target,
          qty      |-> qty,
          coverage |-> IF finite
                       THEN ToFixed(arg.onHand * VelocityWindow, velNum, 10)  \* tenths
                       ELSE "inf",
          urgency  |-> urgency ]

ROPInputs ==
    [ sales30d : 0..MaxSales, onHand : 0..MaxOnHand,
      leadDays : 0..MaxLeadDays, safetyDays : 0..MaxSafetyDays ]

ROPEnvs == { [lead |-> 0, safety |-> 0],
             [lead |-> EnvLeadDays, safety |-> EnvSafetyDays] }

InitROP ==
    /\ ropIn \in ROPInputs
    /\ ropEnv \in ROPEnvs
    /\ ropOut = NoObject
    /\ ropPc = "input"
    /\ IdleFetch /\ IdleCache /\ IdleProducts /\ IdleAnalysis /\ IdleLimiter
    /\ IdleCursor /\ IdleReorder /\ IdleMail /\ IdleCron

CallComputeROP ==
    /\ ropPc = "input"
    /\ ropOut' = computeROP(ropIn, ropEnv)
    /\ ropPc' = "done"
    /\ UNCHANGED <<ropIn, ropEnv>>
    /\ UNCHANGED <<fetchVars, cacheVars, prodVars, analysisVars, limiterVars>>
    /\ UNCHANGED <<cursorVars, reorderVars, mailVars, cronVars>>

NextROP == CallComputeROP

SpecROP == InitROP /\ [][NextROP]_vars

\* C10: for all sales30d >= 0, onHand >= 0, leadDays and safetyDays, computeROP
\* returns rop = ceil(v*(leadDays+safetyDays)), target = ceil(v*(leadDays+
\* safetyDays+14)), qty = max(0, target - onHand) with v = sales30d/30, and
\* urgency critical if coverage <= leadDays, high if coverage <= leadDays +
\* safetyDays, else medium (coverage = onHand/v, infinite when v = 0).
ROPMatchesFormula ==
    ropPc = "done" =>
        LET s == ropIn.sales30d
            h == ropIn.onHand
            l == ropIn.leadDays
            d == ropIn.safetyDays
            tgt == CeilDiv(s * (l + d + 14), 30)
        IN  /\ ropOut.rop = CeilDiv(s * (l + d), 30)
            /\ ropOut.target = tgt
            /\ ropOut.qty = Max(0, tgt - h)
            /\ ropOut.urgency =
                 IF s > 0 /\ 30 * h <= l * s THEN "critical"
                 ELSE IF s > 0 /\ 30 * h <= (l + d) * s THEN "high"
                 ELSE "medium"
            /\ (s = 0 => ropOut.rop = 0 /\ ropOut.coverage = "inf"
                         /\ ropOut.urgency = "medium")
            /\ (h = 0 /\ s > 0 => ropOut.urgency = "critical")
            /\ (h = 2 /\ s = 60 /\ l = 7 /\ d = 3 =>
                    ropOut.rop = 20 /\ ropOut.coverage = 10
                    /\ ropOut.urgency = "critical")

\* The same statement restricted to non-zero leadDays and safetyDays: the part
\* of C10 the code satisfies.
ROPMatchesFormulaNonZero ==
    (ropIn.leadDays # 0 /\ ropIn.safetyDays # 0) => ROPMatchesFormula

(***************************************************************************)
(* handler -> fetchOrdersPaidInRange -> safeShopifyCall -> fetchWithTimeout *)
(***************************************************************************)
MaxOrders == 2

Retries == 2
PageCeiling == 100
RateLimitBackoff == 2000
TimeoutBackoff == 1000

\* What one run of fn() = fetchWithTimeout(url) can end in: a response, or an
\* error thrown: HTTP 429, a message holding "timeout", the AbortError of the
\* 15 s abort timer, any other HTTP status.
FetchErrors == {"429", "timeout", "abort", "http"}

isRateLimit(e) == e = "429"
isTimeout(e) == e = "timeout"
isAbort(e) == e = "abort"

\* waitTime without the (i + 1) factor: the same delay before every retry.
waitTimeFlat(e, i) ==
    IF isRateLimit(e) THEN RateLimitBackoff ELSE TimeoutBackoff

\* safeShopifyCall line 228: waitTime
waitTime(e, i) ==
    IF isRateLimit(e) THEN RateLimitBackoff * (i + 1) ELSE TimeoutBackoff * (i + 1)

\* safeShopifyCall, the catch block: what the call does after error e of attempt i.
\*   "wait"  sleep waitTime, then the next attempt (continue)
\*   "again" fall out of the catch block into the next iteration at once
\*   "null"  return null
safeShopifyCallCatch(e, i) ==
    IF (isRateLimit(e) \/ isTimeout(e) \/ isAbort(e)) /\ i < Retries THEN "wait"
    ELSE IF i = Retries THEN "null"
    ELSE "again"

ValidPeriods == {"daily", "weekly", "monthly"}
Periods == ValidPeriods \cup {"yearly"}

\* handler, catch block: res.status(500).json({success: false, ...})
ErrorResponse == [status |-> 500, success |-> FALSE, totalOrders |-> 0]
\* handler, any of the three outputs after reportData is built
SuccessResponse(n) == [status |-> 200, success |-> TRUE, totalOrders |-> n]

InitFetch ==
    /\ period \in Periods
    /\ fpc = "start"
    /\ pageCount = 0 /\ pagesRequested = 0 /\ out = 0
    /\ retryI = 0 /\ attempts = 0 /\ callErrs = << >> /\ callWaits = << >>
    /\ callResult = Null /\ failedPages = {} /\ response = NoObject
    /\ IdleROP /\ IdleCache /\ IdleProducts /\ IdleAnalysis /\ IdleLimiter
    /\ IdleCursor /\ IdleReorder /\ IdleMail /\ IdleCron

\* handler lines 1655-1665: computeRange leaves start undefined for an unknown
\* period and getCacheKey throws on start.toFormat: the catch answers 500.
HandlerStart ==
    /\ fpc = "start"
    /\ IF period \in ValidPeriods
       THEN fpc' = "loop" /\ UNCHANGED response
       ELSE fpc' = "done" /\ response' = ErrorResponse
    /\ UNCHANGED <<period, pageCount, pagesRequested, out, retryI, attempts,
                   callErrs, callWaits, callResult, failedPages>>
    /\ UNCHANGED <<ropVars, cacheVars, prodVars, analysisVars, limiterVars>>
    /\ UNCHANGED <<cursorVars, reorderVars, mailVars, cronVars>>

\* fetchOrdersPaidInRange line 315 and the call of safeShopifyCall (i = 0)
LoopHead ==
    /\ fpc = "loop"
    /\ pageCount' = pageCount + 1
    /\ IF pageCount > PageCeiling
       THEN /\ fpc' = "collected"
            /\ UNCHANGED <<pagesRequested, retryI, attempts, callErrs, callWaits>>
       ELSE /\ fpc' = "attempt"
            /\ pagesRequested' = pagesRequested + 1
            /\ retryI' = 0 /\ attempts' = 0
            /\ callErrs' = << >> /\ callWaits' = << >>
    /\ UNCHANGED <<period, out, callResult, failedPages, response>>
    /\ UNCHANGED <<ropVars, cacheVars, prodVars, analysisVars, limiterVars>>
    /\ UNCHANGED <<cursorVars, reorderVars, mailVars, cronVars>>

\* safeShopifyCall: fn() returns a page; fetchOrdersPaidInRange lines 327-338
AttemptSucceeds ==
    /\ fpc = "attempt"
    /\ attempts' = attempts + 1
    /\ callResult' = "ok"
    /\ \E n \in 0..1, next \in BOOLEAN :
         /\ out + n <= MaxOrders
         /\ out' = out + n
         /\ fpc' = IF next THEN "loop" ELSE "collected"
    /\ UNCHANGED <<period, pageCount, pagesRequested, retryI, callErrs, callWaits,
                   failedPages, response>>
    /\ UNCHANGED <<ropVars, cacheVars, prodVars, analysisVars, limiterVars>>
    /\ UNCHANGED <<cursorVars, reorderVars, mailVars, cronVars>>

\* safeShopifyCall: fn() throws e; lines 222-236, and lines 322-325 on null
AttemptFails ==
    /\ fpc = "attempt"
    /\ attempts' = attempts + 1
    /\ \E e \in FetchErrors :
         /\ callErrs' = Append(callErrs, e)
         /\ LET todo == safeShopifyCallCatch(e, retryI)
            IN  CASE todo = "wait" ->
                       /\ callWaits' = Append(callWaits, waitTime(e, retryI))
                       /\ fpc' = "backoff"
                       /\ UNCHANGED <<retryI, callResult, failedPages, response>>
                  [] todo = "again" ->
                       /\ retryI' = retryI + 1
                       /\ fpc' = "attempt"
                       /\ UNCHANGED <<callWaits, callResult, failedPages, response>>
                  [] todo = "null" ->
                       /\ callResult' = Null
                       /\ failedPages' = failedPages \cup {pageCount}
                       /\ fpc' = "collected"
                       /\ UNCHANGED <<retryI, callWaits, response>>
                  [] OTHER ->   \* the error leaves safeShopifyCall: handler catch
                       /\ callResult' = "throw"
                       /\ response' = ErrorResponse
                       /\ fpc' = "done"
                       /\ UNCHANGED <<retryI, callWaits, failedPages>>
    /\ UNCHANGED <<period, pageCount, pagesRequested, out>>
    /\ UNCHANGED <<ropVars, cacheVars, prodVars, analysisVars, limiterVars>>
    /\ UNCHANGED <<cursorVars, reorderVars, mailVars, cronVars>>

\* safeShopifyCall lines 230-231: the delay has elapsed, continue
Backoff ==
    /\ fpc = "backoff"
    /\ retryI' = retryI + 1
    /\ fpc' = "attempt"
    /\ UNCHANGED <<period, pageCount, pagesRequested, out, attempts, callErrs,
                   callWaits, callResult, failedPages, response>>
    /\ UNCHANGED <<ropVars, cacheVars, prodVars, analysisVars, limiterVars>>
    /\ UNCHANGED <<cursorVars, reorderVars, mailVars, cronVars>>

\* handler lines 1687-1829: the rest of the run has no throwing step (every
\* later lookup goes through safeShopifyCall or a try/catch) and answers 200
\* with stats.totalOrders = orders.length.
Respond ==
    /\ fpc = "collected"
    /\ response' = SuccessResponse(out)
    /\ fpc' = "done"
    /\ UNCHANGED <<period, pageCount, pagesRequested, out, retryI, attempts,
                   callErrs, callWaits, callResult, failedPages>>
    /\ UNCHANGED <<ropVars, cacheVars, prodVars, analysisVars, limiterVars>>
    /\ UNCHANGED <<cursorVars, reorderVars, mailVars, cronVars>>

NextFetch ==
    \/ HandlerStart
    \/ LoopHead
    \/ AttemptSucceeds
    \/ AttemptFails
    \/ Backoff
    \/ Respond

SpecFetch == InitFetch /\ [][NextFetch]_vars

\* C6: the link-header collector requests at most 100 pages in one collection,
\* even when every response carries a rel="next" link.
CollectorWithin100Pages == pagesRequested <= 100

\* What the loop guard `pageCount++ > 100` does bound: 101 requested pages.
CollectorWithin101Pages == pagesRequested <= PageCeiling + 1

\* C7: a call through safeShopifyCall that keeps failing with rate-limit or
\* timeout errors runs fn() at most 3 times, sleeps 2 s then 4 s after
\* rate-limit errors and 1 s then 2 s after timeouts, and once the retries are
\* used up returns null to its caller instead of throwing: the run goes on to
\* its success response.
Retryable(e) == e \in {"429", "timeout", "abort"}

SafeCallBoundedRetries ==
    (\A j \in 1..Len(callErrs) : Retryable(callErrs[j])) =>
        /\ attempts <= 3
        /\ Len(callErrs) <= 3
        /\ Len(callWaits) = Min(Len(callErrs), 2)
        /\ \A j \in 1..Len(callWaits) :
             callWaits[j] = IF callErrs[j] = "429"
                            THEN (IF j = 1 THEN 2000 ELSE 4000)
                            ELSE (IF j = 1 THEN 1000 ELSE 2000)
        /\ (Len(callErrs) = 3 =>
              /\ callResult = Null
              /\ fpc \in {"collected", "done"}
              /\ (fpc = "done" => response.success))

SafeCallExhausted ==
    /\ callErrs = <<"429", "timeout", "429">>
    /\ callWaits = <<2000, 2000>>
    /\ fpc = "done"
    /\ response.success

\* C8: when the very first page of the order collection fails outright the
\* request ends in a structured error (success false), distinguishable from
\* the success result of a run that found zero orders.
FirstPageFailureIsHardFailure ==
    (fpc = "done" /\ 1 \in failedPages) => response.success = FALSE

\* C22: an HTTP error that is neither a rate limit nor a timeout or abort is
\* not retried: it is the last error of its call, fn() is not run again after
\* it, and the call is over (reported as failed) once it is caught.
NonRetryableErrorEndsCall ==
    \A j \in 1..Len(callErrs) :
        ~Retryable(callErrs[j]) =>
            /\ j = Len(callErrs)
            /\ attempts = j
            /\ fpc \notin {"attempt", "backoff"}

\* What holds instead: the call is over once such an error is caught in the
\* last iteration (i = retries); before that fn() runs again at once.
NonRetryableErrorEndsLastIteration ==
    \A j \in 1..Len(callErrs) :
        (~Retryable(callErrs[j]) /\ j = Retries + 1) =>
            /\ j = Len(callErrs)
            /\ attempts = j
            /\ fpc \notin {"attempt", "backoff"}

(***************************************************************************)
(* The report cache (reportCache, getCacheTTL, getCacheKey, getFromCache,  *)
(* setCache) and the handler's use of it by the requests of one process.   *)
(* JavaScript runs one request at a time and switches only at an await:    *)
(* cur names the request that holds the thread between two awaits.         *)
(***************************************************************************)
MaxTicks == 2
MaxFree == 2

CacheCapacity == 15
MinuteMs == 60000
HourMs == 3600000
DayMs == 86400000
TodayTTLMinutes == 3
DailyTTLMinutes == 10
WeeklyTTLHours == 2
MonthlyTTLHours == 4

Requests == {"r1", "r2"}
NoOne == "none"

\* getCacheTTL
getCacheTTL(p, today) ==
    IF today THEN TodayTTLMinutes * MinuteMs
    ELSE IF p = "daily" THEN DailyTTLMinutes * MinuteMs
    ELSE IF p = "weekly" THEN WeeklyTTLHours * HourMs
    ELSE MonthlyTTLHours * HourMs

\* The calendar of 2024 in the shop's time zone (a fixed offset): day 0 is
\* Monday 2024-01-01; the first day of each month.
MonthStarts == {0, 31, 60, 91, 121, 152, 182, 213, 244, 274, 305, 335}
DayOf(t) == t \div DayMs
HourOf(t) == (t % DayMs) \div HourMs
StartOfWeek(d) == d - (d % 7)
StartOfMonth(d) == CHOOSE m \in MonthStarts :
                      m <= d /\ \A m2 \in MonthStarts : m2 <= d => m2 <= m
EndOfMonth(d) ==
    LET later == {m \in MonthStarts : m > d}
    IN  IF later = {} THEN 365
        ELSE (CHOOSE m \in later : \A m2 \in later : m <= m2) - 1

\* computeRange on day d of the shop's clock: start is the first instant
\* (hour 0) of startDay, end the last instant of endDay.
computeRangeOn(p, todayFlag, d) ==
    IF p = "daily"
    THEN IF todayFlag
         THEN [startDay |-> d, startHour |-> 0, endDay |-> d]
         ELSE [startDay |-> d - 1, startHour |-> 0, endDay |-> d - 1]
    ELSE IF p = "weekly"
    THEN [startDay |-> StartOfWeek(d), startHour |-> 0,
          endDay |-> StartOfWeek(d) + 6]
    ELSE [startDay |-> StartOfMonth(d), startHour |-> 0,
          endDay |-> EndOfMonth(d)]

\* computeRange at the instant t (in ms) of the shop's clock
computeRange(p, todayFlag, t) == computeRangeOn(p, todayFlag, DayOf(t))

\* getCacheKey: `${period}-${today}-${timeKey}`, timeKey formatted from start
getCacheKey(p, today, range) ==
    LET timeKey == IF today THEN <<range.startDay, range.startHour>>
                   ELSE <<range.startDay>>
    IN  <<p, today, timeKey>>

\* handler line 1666: getCacheKey(...) + (includeAllLocations ? '-all' : '')
handlerCacheKey(p, today, all, t) ==
    Append(getCacheKey(p, today, computeRange(p, today, t)),
           IF all THEN "-all" ELSE "")

\* Map.prototype.get / has / delete / set on the entry sequence
MapIndex(m, k) ==
    IF \E i \in 1..Len(m) : m[i].key = k
    THEN CHOOSE i \in 1..Len(m) : m[i].key = k
    ELSE 0
MapHas(m, k) == MapIndex(m, k) # 0
MapGet(m, k) == m[MapIndex(m, k)]
MapDelete(m, k) ==
    LET i == MapIndex(m, k)
    IN  IF i = 0 THEN m ELSE SubSeq(m, 1, i - 1) \o SubSeq(m, i + 1, Len(m))
\* an existing key keeps its place, a new key goes last
MapSet(m, k, e) ==
    LET i == MapIndex(m, k)
    IN  IF i = 0 THEN Append(m, e) ELSE [m EXCEPT ![i] = e]
MapKeys(m) == {m[i].key : i \in 1..Len(m)}

\* what getFromCache returns on a miss (null)
Miss == [cached |-> FALSE]

\* getFromCache without lines 25-28: an entry is served whatever its age.
getFromCacheNeverExpires(m, k, ttl, t) ==
    IF ~MapHas(m, k) THEN [result |-> Miss, cache |-> m]
    ELSE [result |-> [data |-> MapGet(m, k).data, cached |-> TRUE,
                      cacheAge |-> (t - MapGet(m, k).timestamp) \div 1000],
          cache |-> m]

\* getFromCache: the value returned and the Map afterwards
getFromCache(m, k, ttl, t) ==
    IF ~MapHas(m, k) THEN [result |-> Miss, cache |-> m]
    ELSE LET cached == MapGet(m, k)
             age == t - cached.timestamp
         IN  IF age > ttl
             THEN [result |-> Miss, cache |-> MapDelete(m, k)]
             ELSE [result |-> [data |-> cached.data, cached |-> TRUE,
                               cacheAge |-> age \div 1000],
                   cache |-> m]

\* setCache lines 33-36 evicting the newest entry instead of the oldest.
setCacheEvictNewest(m) ==
    IF Len(m) >= CacheCapacity THEN SubSeq(m, 1, Len(m) - 1) ELSE m

\* setCache lines 33-36: reportCache.keys().next().value is the first key
setCacheEvict(m) ==
    IF Len(m) >= CacheCapacity THEN MapDelete(m, m[1].key) ELSE m

\* setCache line 37
setCacheInsert(m, k, data, t) ==
    MapSet(m, k, [key |-> k, data |-> data, timestamp |-> t])

\* A request that yields the thread between the two statements of setCache.
ThreadAfterEvictYields(r) == NoOne

\* setCache has no await between its statements: the request keeps the thread.
ThreadAfterEvict(r) == r

\* `if (!debug)` taken whatever the flag says
usesCacheAlways(debug) == TRUE

\* handler lines 1669 and 1788: `if (!debug)`
usesCache(debug) == ~debug

\* reportData as far as the cache is concerned: which report, built when
Report(k, t) == [success |-> TRUE, key |-> k, builtAt |-> t]

HandlerInputs ==
    [period : ValidPeriods, today : BOOLEAN, all : BOOLEAN, debug : BOOLEAN]

\* The process is looked at from 00:58 on Wednesday 2024-01-10, so that a
\* report built now is still fresh when the next hour has begun.
StartTime == 9 * DayMs + 58 * MinuteMs

\* The entries earlier requests of the process left, in the order they were
\* inserted: the monthly report and four daily reports asked for an hour
\* earlier (23:58 the day before), then reports asked for just now.
EarlierRequests ==
    LET y == StartTime - HourMs
        t == StartTime
    IN  << <<"monthly", FALSE, FALSE, y>>,
           <<"daily", FALSE, FALSE, y>>, <<"daily", TRUE, FALSE, y>>,
           <<"daily", FALSE, TRUE, y>>,  <<"daily", TRUE, TRUE, y>>,
           <<"daily", TRUE, FALSE, t>>,  <<"daily", FALSE, FALSE, t>>,
           <<"weekly", FALSE, FALSE, t>>,
           <<"daily", TRUE, TRUE, t>>,   <<"daily", FALSE, TRUE, t>>,
           <<"weekly", FALSE, TRUE, t>>, <<"monthly", FALSE, TRUE, t>>,
           <<"weekly", TRUE, FALSE, t>>, <<"monthly", TRUE, FALSE, t>>,
           <<"weekly", TRUE, TRUE, t>> >>

Served(n) ==
    [i \in 1..n |->
        LET q == EarlierRequests[i]
            k == handlerCacheKey(q[1], q[2], q[3], q[4])
        IN  [key |-> k, data |-> Report(k, q[4]), timestamp |-> q[4]]]

NewRequest ==
    [pc |-> "idle", period |-> Null, today |-> FALSE, all |-> FALSE,
     debug |-> FALSE, key |-> NoKey, ttl |-> 0, read |-> Null,
     data |-> NoObject, resp |-> NoObject]

InitHandler ==
    /\ \E n \in {0} \cup ((CacheCapacity - MaxFree)..CacheCapacity) :
          reportCache = Served(n)
    /\ now = StartTime
    /\ ticks = 0
    /\ req = [r \in Requests |-> NewRequest]
    /\ cur = NoOne
    /\ IdleROP /\ IdleFetch /\ IdleProducts /\ IdleAnalysis /\ IdleLimiter
    /\ IdleCursor /\ IdleReorder /\ IdleMail /\ IdleCron

\* handler lines 1651-1665: the query is read, computeRange is awaited
Arrive(r) ==
    /\ cur = NoOne
    /\ req[r].pc = "idle"
    /\ \E q \in HandlerInputs :
         req' = [req EXCEPT ![r].pc = "range", ![r].period = q.period,
                            ![r].today = q.today, ![r].all = q.all,
                            ![r].debug = q.debug]
    /\ UNCHANGED <<reportCache, now, ticks, cur>>
    /\ UNCHANGED <<ropVars, fetchVars, prodVars, analysisVars, limiterVars>>
    /\ UNCHANGED <<cursorVars, reorderVars, mailVars, cronVars>>

\* handler lines 1665-1687: key, TTL, the cache read and its HIT response, or
\* the start of the order collection (the next await)
ReadCache(r) ==
    /\ cur = NoOne
    /\ req[r].pc = "range"
    /\ LET k   == handlerCacheKey(req[r].period, req[r].today, req[r].all, now)
           ttl == getCacheTTL(req[r].period, req[r].today)
           got == getFromCache(reportCache, k, ttl, now)
       IN  IF ~usesCache(req[r].debug)
           THEN /\ req' = [req EXCEPT ![r].pc = "collect", ![r].key = k,
                                      ![r].ttl = ttl, ![r].read = "skipped"]
                /\ UNCHANGED reportCache
           ELSE /\ reportCache' = got.cache
                /\ IF got.result.cached
                   THEN req' = [req EXCEPT ![r].pc = "done", ![r].key = k,
                                   ![r].ttl = ttl, ![r].read = "hit",
                                   ![r].resp = [status |-> 200, xcache |-> "HIT",
                                                body |-> got.result]]
                   ELSE req' = [req EXCEPT ![r].pc = "collect", ![r].key = k,
                                   ![r].ttl = ttl,
                                   ![r].read = IF MapHas(reportCache, k)
                                               THEN "expired" ELSE "absent"]
    /\ UNCHANGED <<now, ticks, cur>>
    /\ UNCHANGED <<ropVars, fetchVars, prodVars, analysisVars, limiterVars>>
    /\ UNCHANGED <<cursorVars, reorderVars, mailVars, cronVars>>

\* handler lines 1687-1786: the awaited collection, enrichment and analysis;
\* reportData is built when the last of them has returned
Collect(r) ==
    /\ cur = NoOne
    /\ req[r].pc = "collect"
    /\ req' = [req EXCEPT ![r].pc = "write", ![r].data = Report(req[r].key, now)]
    /\ UNCHANGED <<reportCache, now, ticks, cur>>
    /\ UNCHANGED <<ropVars, fetchVars, prodVars, analysisVars, limiterVars>>
    /\ UNCHANGED <<cursorVars, reorderVars, mailVars, cronVars>>

\* handler lines 1788-1790 and setCache lines 33-36
WriteCacheEvict(r) ==
    /\ cur = NoOne
    /\ req[r].pc = "write"
    /\ IF ~usesCache(req[r].debug)
       THEN /\ req' = [req EXCEPT ![r].pc = "done",
                          ![r].resp = [status |-> 200, xcache |-> "MISS",
                                       body |-> req[r].data]]
            /\ UNCHANGED <<reportCache, cur>>
       ELSE /\ reportCache' = setCacheEvict(reportCache)
            /\ req' = [req EXCEPT ![r].pc = "insert"]
            /\ cur' = ThreadAfterEvict(r)
    /\ UNCHANGED <<now, ticks>>
    /\ UNCHANGED <<ropVars, fetchVars, prodVars, analysisVars, limiterVars>>
    /\ UNCHANGED <<cursorVars, reorderVars, mailVars, cronVars>>

\* setCache line 37 and the MISS response, handler lines 1792-1823
WriteCacheInsert(r) ==
    /\ cur \in {r, NoOne}
    /\ req[r].pc = "insert"
    /\ reportCache' = setCacheInsert(reportCache, req[r].key, req[r].data, now)
    /\ req' = [req EXCEPT ![r].pc = "done",
                  ![r].resp = [status |-> 200, xcache |-> "MISS",
                               body |-> req[r].data]]
    /\ cur' = NoOne
    /\ UNCHANGED <<now, ticks>>
    /\ UNCHANGED <<ropVars, fetchVars, prodVars, analysisVars, limiterVars>>
    /\ UNCHANGED <<cursorVars, reorderVars, mailVars, cronVars>>

\* Time passes while every request waits at an await.
Tick ==
    /\ cur = NoOne
    /\ ticks < MaxTicks
    /\ \E step \in {1, TodayTTLMinutes * MinuteMs} : now' = now + step
    /\ ticks' = ticks + 1
    /\ UNCHANGED <<reportCache, req, cur>>
    /\ UNCHANGED <<ropVars, fetchVars, prodVars, analysisVars, limiterVars>>
    /\ UNCHANGED <<cursorVars, reorderVars, mailVars, cronVars>>

NextHandler ==
    \/ \E r \in Requests : Arrive(r)
    \/ \E r \in Requests : ReadCache(r)
    \/ \E r \in Requests : Collect(r)
    \/ \E r \in Requests : WriteCacheEvict(r)
    \/ \E r \in Requests : WriteCacheInsert(r)
    \/ Tick

SpecHandler == InitHandler /\ [][NextHandler]_vars

ReadStep(r) == req[r].pc = "range" /\ req'[r].pc # "range" /\ ~req[r].debug
EvictStep(r) == req[r].pc = "write" /\ req'[r].pc = "insert"
InsertStep(r) == req[r].pc = "insert" /\ req'[r].pc = "done"

\* C3: a set(key, payload) followed by a get with the same key returns the
\* stored payload; once more than the key's TTL has elapsed since the set, the
\* get returns a miss. The set leaves an entry holding the payload and the
\* time of the set; a get of a key that has an entry answers with the entry's
\* payload while its age is within the TTL, and misses (and drops the entry)
\* once the age exceeds it.
CacheSetThenGet ==
    [][\A r \in Requests :
          /\ InsertStep(r) =>
                /\ MapHas(reportCache', req[r].key)
                /\ MapGet(reportCache', req[r].key).data = req[r].data
                /\ MapGet(reportCache', req[r].key).timestamp = now
          /\ (ReadStep(r) /\ MapHas(reportCache, req'[r].key)) =>
                LET e == MapGet(reportCache, req'[r].key)
                IN  IF now - e.timestamp > req'[r].ttl
                    THEN /\ req'[r].pc = "collect"
                         /\ ~MapHas(reportCache', req'[r].key)
                    ELSE /\ req'[r].pc = "done"
                         /\ req'[r].resp.xcache = "HIT"
                         /\ req'[r].resp.body.data = e.data
                         /\ reportCache' = reportCache
      ]_vars

\* A request found its entry expired, rebuilt and stored the report, and the
\* other request then read the same key and was served what the first stored.
SetThenGetAfterExpiry ==
    \E r1, r2 \in Requests :
        /\ r1 # r2
        /\ req[r2].pc = "done" /\ req[r2].read = "expired"
        /\ req[r1].pc = "done" /\ req[r1].read = "hit"
        /\ req[r1].key = req[r2].key
        /\ req[r1].resp.body.data = req[r2].data

\* C4: after any sequence of report requests, interleaved at their await
\* points, the cache never holds more than 15 entries, and no other request
\* runs between the eviction and the insertion of one setCache: a request
\* that has evicted holds the thread until it has inserted.
CacheBoundedAndAtomic ==
    /\ Len(reportCache) <= 15
    /\ \A r \in Requests : req[r].pc = "insert" => cur = r
    /\ \A i, j \in 1..Len(reportCache) :
          reportCache[i].key = reportCache[j].key => i = j

\* One request is inside setCache at capacity, its eviction done and its
\* insertion pending, while the other waits to write its own report.
TwoWritersAtCapacity ==
    \E r1, r2 \in Requests :
        /\ req[r1].pc = "insert" /\ Len(reportCache) = 14
        /\ req[r2].pc = "write" /\ ~req[r2].debug
        /\ req[r2].key # req[r1].key

\* C5: when setCache inserts a new key while the cache holds 15 entries,
\* exactly one entry is removed, the earliest-inserted one still present (the
\* first in the Map's order), and the new entry goes last; a cache hit leaves
\* the entries and their order, hence the next entry to evict, unchanged.
EvictsOldestInserted ==
    [][\A r \in Requests :
          /\ (EvictStep(r) /\ Len(reportCache) = 15
                /\ ~MapHas(reportCache, req[r].key)) =>
                reportCache' = Tail(reportCache)
          /\ (EvictStep(r) /\ Len(reportCache) < 15) =>
                reportCache' = reportCache
          /\ (InsertStep(r) /\ ~MapHas(reportCache, req[r].key)) =>
                /\ Len(reportCache') = Len(reportCache) + 1
                /\ SubSeq(reportCache', 1, Len(reportCache)) = reportCache
                /\ reportCache'[Len(reportCache')].key = req[r].key
          /\ (ReadStep(r) /\ req'[r].read = "hit") =>
                reportCache' = reportCache
      ]_vars

\* The first entry of a full cache was hit by one request and then evicted by
\* the insertion of a new key by the other.
HitEntryEvictedAnyway ==
    \E r1, r2 \in Requests :
        /\ req[r2].pc = "done" /\ req[r2].read = "hit"
        /\ req[r2].key = Served(1)[1].key
        /\ req[r1].pc = "done" /\ req[r1].read = "absent"
        /\ ~MapHas(reportCache, req[r2].key)
        /\ Len(reportCache) = 15
        /\ reportCache[15].key = req[r1].key

\* ---- C14
DebugStep(r) == req'[r] # req[r] /\ req[r].pc # "idle" /\ req[r].debug

\* C14: a request with the debug flag set neither reads nor writes the report
\* cache: none of its steps changes the cache, it is never answered from an
\* entry, and it finishes only by answering MISS with the report it built
\* itself.
DebugBypassesCache ==
    [][\A r \in Requests :
          DebugStep(r) =>
             /\ reportCache' = reportCache
             /\ req'[r].read \in {Null, "skipped"}
             /\ req'[r].pc = "done" =>
                   /\ req[r].pc = "write"
                   /\ req'[r].resp.xcache = "MISS"
                   /\ req'[r].resp.body = req[r].data
                   /\ req[r].data # NoObject
      ]_vars

\* A debug request rebuilt a report whose key has a fresh entry, left the
\* older entry in place, and the other request was served that entry.
DebugBesideHit ==
    \E r1, r2 \in Requests :
        /\ req[r1].debug /\ req[r1].pc = "done"
        /\ req[r2].pc = "done" /\ req[r2].read = "hit"
        /\ req[r2].key = req[r1].key
        /\ MapHas(reportCache, req[r1].key)
        /\ MapGet(reportCache, req[r1].key).data # req[r1].data
        /\ req[r2].resp.body.data = MapGet(reportCache, req[r1].key).data
        /\ req[r2].resp.body.data.builtAt < req[r1].data.builtAt

\* ---- C15
DocumentedTTL(p, today) ==
    IF today THEN 3 * MinuteMs
    ELSE IF p = "daily" THEN 10 * MinuteMs
    ELSE IF p = "weekly" THEN 30 * MinuteMs
    ELSE 60 * MinuteMs

\* C15: the time-to-live the handler applies to a report is 3 minutes for
\* today reports, 10 minutes for daily, 30 minutes for weekly and 1 hour for
\* monthly reports.
TTLAsDocumented ==
    \A r \in Requests :
        req[r].pc \notin {"idle", "range"} =>
            req[r].ttl = DocumentedTTL(req[r].period, req[r].today)

\* ---- C20
\* C20: the key separates location scopes and, for is-today requests, hours:
\* a request is served an entry only if the entry was computed for the same
\* location scope and, when is-today, requested in the same hour of the same
\* day. The report of an entry is built after it was requested and before it
\* is served, so an entry built in an earlier hour than the hit was requested
\* in an earlier hour.
CacheKeySeparatesScopeAndHour ==
    [][\A r \in Requests :
          (ReadStep(r) /\ req'[r].read = "hit") =>
             LET hit == req'[r].resp.body.data
             IN  /\ hit.key[4] = (IF req[r].all THEN "-all" ELSE "")
                 /\ req[r].today =>
                       /\ DayOf(hit.builtAt) = DayOf(now)
                       /\ HourOf(hit.builtAt) = HourOf(now)
      ]_vars

(***************************************************************************)
(* processProductsComplete (src/api/sales-report.js, lines 449-527) with   *)
(* fetchVariantsByIds and fetchInventoryLevelsForItems, and the            *)
(* aggregation step of the GraphQL handler (lines 1896-1917).              *)
(*                                                                         *)
(* An absent identifier is NoId, an absent number NullNumber.  A Map key   *)
(* is [variant, text]: a variant id, or the pieces of the string key.      *)
(***************************************************************************)
NoId == 0
NullNumber == -1
ChunkSize == 50

MaxVariant == 2
MaxQty == 2
MaxFailures == 1
NumBigVariants == 52

\* the sum of s[lo..hi], by halves
RECURSIVE SumRange(_, _, _)
SumRange(s, lo, hi) ==
    IF lo > hi THEN 0
    ELSE IF lo = hi THEN s[lo]
    ELSE SumRange(s, lo, (lo + hi) \div 2) + SumRange(s, ((lo + hi) \div 2) + 1, hi)

SumSeq(s) == SumRange(s, 1, Len(s))

\* ---- the store the API answers from
Locations == {1, 2, 3}
LocationActive(l) == l # 3
AvailableAt(l) == CASE l = 1 -> 5 [] l = 2 -> 3 [] OTHER -> 100
\* GET /variants/{id}.json
Catalog(v) ==
    [inventory_item_id |-> 100 + v,
     inventory_quantity |-> IF v % 3 = 0 THEN 0 ELSE 4 + (v % 3),
     inventory_management |-> IF v % 2 = 1 THEN "shopify" ELSE ""]
\* GET /inventory_levels.json?inventory_item_ids=c
InventoryLevelsOf(lv, c) ==
    LET InChunk(l) == \E i \in 1..Len(c) : c[i] = l.inventory_item_id
    IN  SelectSeq(lv, InChunk)

\* ---- validation, lines 240-271
validateOrder(o) == o.created_at
validateLineItem(li) == ~(li.title = "" /\ li.name = "")

getOrderRevenue(o) == o.total_price

\* line 464
lineKey(li) ==
    IF li.variant_id # NoId
    THEN [variant |-> li.variant_id, text |-> << >>]
    ELSE [variant |-> NoId,
          text |-> <<"SKU:", IF li.sku # "" THEN li.sku ELSE li.title>>]

\* lines 465-475
newRow(li) ==
    [key |-> lineKey(li),
     productTitle |-> IF li.title # "" THEN li.title
                      ELSE IF li.name # "" THEN li.name ELSE "Producto",
     variantTitle |-> IF li.variant_title # "" THEN li.variant_title
                      ELSE "Default Title",
     sku |-> li.sku,
     unitPrice |-> li.price,
     soldQty |-> 0,
     revenue |-> 0,
     variantId |-> li.variant_id,
     inventory_item_id |-> li.inventory_item_id,
     inventoryAvailable |-> NullNumber,
     variantFallbackQty |-> NullNumber,
     variantMgmt |-> Null]

\* lines 479-482 without the order's total: the line's own subtotal
lineItemRevenueUntaxed(li, o) ==
    IF o.subtotal_price > 0 THEN li.price * li.quantity ELSE 0

\* lines 479-482
lineItemRevenue(li, o) ==
    IF o.subtotal_price > 0
    THEN (li.price * li.quantity * getOrderRevenue(o)) \div o.subtotal_price
    ELSE 0

\* accumulate with "=" for "+=" at line 477
accumulateOverwrites(prev, li, o) ==
    [prev EXCEPT !.soldQty = li.quantity,
                 !.revenue = @ + lineItemRevenue(li, o)]

\* lines 477-483
accumulate(prev, li, o) ==
    [prev EXCEPT !.soldQty = @ + li.quantity,
                 !.revenue = @ + lineItemRevenue(li, o)]

\* lines 455-458: the lines of the valid orders, each with its order
RECURSIVE FlatLines(_)
FlatLines(os) ==
    IF os = << >> THEN << >>
    ELSE LET o == Head(os)
         IN  (IF validateOrder(o)
              THEN [i \in 1..Len(o.line_items) |-> [o |-> o, li |-> o.line_items[i]]]
              ELSE << >>) \o FlatLines(Tail(os))

\* lines 459-485: one line item
aggregateLine(byVariant, li, o) ==
    LET key == lineKey(li)
        prev == IF MapHas(byVariant, key) THEN MapGet(byVariant, key)
                ELSE newRow(li)
    IN  IF validateLineItem(li)
        THEN MapSet(byVariant, key, accumulate(prev, li, o))
        ELSE byVariant

\* lines 458-489: the lines flat[lo..hi] in order, the range taken by halves
RECURSIVE aggregateRange(_, _, _, _)
aggregateRange(flat, lo, hi, byVariant) ==
    IF lo > hi THEN byVariant
    ELSE IF lo = hi THEN aggregateLine(byVariant, flat[lo].li, flat[lo].o)
    ELSE LET first == aggregateRange(flat, lo, (lo + hi) \div 2, byVariant)
         IN  IF first = first   \* the first half is evaluated by now
             THEN aggregateRange(flat, ((lo + hi) \div 2) + 1, hi, first)
             ELSE first

aggregate(flat, byVariant) == aggregateRange(flat, 1, Len(flat), byVariant)

\* line 487
variantIdsOf(flat) ==
    {flat[i].li.variant_id : i \in {j \in 1..Len(flat) :
        validateLineItem(flat[j].li) /\ flat[j].li.variant_id # NoId}}

\* line 494: the comparator is negative
Before(a, b) ==
    \/ a.soldQty > b.soldQty
    \/ a.soldQty = b.soldQty /\ a.revenue > b.revenue

\* line 494: Array.prototype.sort is stable: r goes after the rows of the
\* sorted prefix that the comparator does not put behind it
insertSorted(sorted, r) ==
    LET n == Cardinality({j \in 1..Len(sorted) : ~Before(r, sorted[j])})
    IN  SubSeq(sorted, 1, n) \o <<r>> \o SubSeq(sorted, n + 1, Len(sorted))

\* the rows s[lo..hi] inserted in order, the range taken by halves
RECURSIVE sortRange(_, _, _, _)
sortRange(s, lo, hi, sorted) ==
    IF lo > hi THEN sorted
    ELSE IF lo = hi THEN insertSorted(sorted, s[lo])
    ELSE LET first == sortRange(s, lo, (lo + hi) \div 2, sorted)
         IN  IF first = first   \* the first half is evaluated by now
             THEN sortRange(s, ((lo + hi) \div 2) + 1, hi, first)
             ELSE first

sortRows(s) == sortRange(s, 1, Len(s), << >>)

\* ---- fetchVariantsByIds, lines 358-390: a failed lookup leaves no entry
fetchVariantsByIds(ids, fails) ==
    [v \in {x \in ids : <<"variant", x>> \notin fails} |-> Catalog(v)]

\* lines 499-507
applyVariantInfo(r, info) ==
    IF r.variantId # NoId /\ r.variantId \in DOMAIN info
    THEN [r EXCEPT !.inventory_item_id =
                       IF @ = NoId THEN info[r.variantId].inventory_item_id ELSE @,
                   !.variantFallbackQty = info[r.variantId].inventory_quantity,
                   !.variantMgmt = info[r.variantId].inventory_management]
    ELSE r

\* line 356
chunk(arr, n) ==
    [i \in 1..CeilDiv(Len(arr), n) |->
        SubSeq(arr, (i - 1) * n + 1, Min(i * n, Len(arr)))]

\* lines 393, 510: [...new Set(ids.filter(Boolean))], first occurrences in order
Dedupe(ids) ==
    LET keep == {i \in 1..Len(ids) :
                    ids[i] # NoId /\ \A j \in 1..(i - 1) : ids[j] # ids[i]}
    IN  [p \in 1..Cardinality(keep) |->
            ids[CHOOSE i \in keep : Cardinality({j \in keep : j < i}) = p - 1]]

\* line 435
addAvailable(res, k, a) ==
    MapSet(res, k, [key |-> k,
                    available |-> (IF MapHas(res, k) THEN MapGet(res, k).available
                                   ELSE 0) + a])

\* addLevel without the test of line 432
addLevelIgnoresActive(acc, lvl, includeInactive, fails) ==
    LET loc == lvl.location_id
        counted == addAvailable(acc.res, lvl.inventory_item_id, lvl.available)
    IN  IF includeInactive THEN [acc EXCEPT !.res = counted]
        ELSE IF loc \in acc.cache THEN [acc EXCEPT !.res = counted]
        ELSE IF <<"location", loc>> \in fails THEN acc
        ELSE [res |-> counted, cache |-> acc.cache \cup {loc}]

\* lines 411-437: one level of a chunk's answer; acc is [res, cache]
addLevel(acc, lvl, includeInactive, fails) ==
    LET loc == lvl.location_id
        counted == addAvailable(acc.res, lvl.inventory_item_id, lvl.available)
    IN  IF includeInactive THEN [acc EXCEPT !.res = counted]
        ELSE IF loc \in acc.cache
        THEN (IF LocationActive(loc) THEN [acc EXCEPT !.res = counted] ELSE acc)
        ELSE IF <<"location", loc>> \in fails THEN acc
        ELSE [res |-> IF LocationActive(loc) THEN counted ELSE acc.res,
              cache |-> acc.cache \cup {loc}]

\* lines 411-437: the levels lvls[lo..hi] in order, the range taken by halves
RECURSIVE addLevelsRange(_, _, _, _, _, _)
addLevelsRange(acc, lvls, lo, hi, includeInactive, fails) ==
    IF lo > hi THEN acc
    ELSE IF lo = hi THEN addLevel(acc, lvls[lo], includeInactive, fails)
    ELSE LET first == addLevelsRange(acc, lvls, lo, (lo + hi) \div 2,
                                     includeInactive, fails)
         IN  IF first = first   \* the first half is evaluated by now
             THEN addLevelsRange(first, lvls, ((lo + hi) \div 2) + 1, hi,
                                 includeInactive, fails)
             ELSE first

addLevels(acc, lvls, includeInactive, fails) ==
    addLevelsRange(acc, lvls, 1, Len(lvls), includeInactive, fails)

\* lines 400-438: the c-th chunk and those after it
RECURSIVE fetchChunks(_, _, _, _, _, _)
fetchChunks(acc, chunks, c, lv, includeInactive, fails) ==
    IF c > Len(chunks) THEN acc
    ELSE fetchChunks(IF <<"chunk", c>> \in fails THEN acc
                     ELSE addLevels(acc, InventoryLevelsOf(lv, chunks[c]),
                                    includeInactive, fails),
                     chunks, c + 1, lv, includeInactive, fails)

\* lines 392-442
fetchInventoryLevelsForItems(itemIds, includeInactive, lv, cache, fails) ==
    fetchChunks([res |-> << >>, cache |-> cache],
                chunk(Dedupe(itemIds), ChunkSize), 1, lv, includeInactive, fails)

\* the fallback taken whatever inventory_management says
assignInventoryAnyMgmt(r, inv) ==
    [r EXCEPT !.inventoryAvailable =
        IF r.inventory_item_id # NoId /\ MapHas(inv, r.inventory_item_id)
        THEN MapGet(inv, r.inventory_item_id).available
        ELSE IF r.variantFallbackQty # NullNumber THEN r.variantFallbackQty
        ELSE 0]

\* lines 515-522
assignInventory(r, inv) ==
    [r EXCEPT !.inventoryAvailable =
        IF r.inventory_item_id # NoId /\ MapHas(inv, r.inventory_item_id)
        THEN MapGet(inv, r.inventory_item_id).available
        ELSE IF r.variantMgmt # "shopify" /\ r.variantFallbackQty # NullNumber
        THEN r.variantFallbackQty
        ELSE 0]

\* line 510
itemIdsOf(rs) ==
    LET HasItem(r) == r.inventory_item_id # NoId
        withItem == SelectSeq(rs, HasItem)
    IN  [i \in 1..Len(withItem) |-> withItem[i].inventory_item_id]

\* lines 449-527
processProductsComplete(os, includeAll, lv, cache, fails) ==
    LET flat == FlatLines(os)
        sorted == sortRows(aggregate(flat, << >>))
        ids == variantIdsOf(flat)
        info == IF ids # {} THEN fetchVariantsByIds(ids, fails) ELSE << >>
        known == [i \in 1..Len(sorted) |-> applyVariantInfo(sorted[i], info)]
        itemIds == itemIdsOf(known)
        inv == IF Len(itemIds) > 0
               THEN fetchInventoryLevelsForItems(itemIds, includeAll, lv, cache, fails)
               ELSE [res |-> << >>, cache |-> cache]
    IN  [rows |-> IF Len(itemIds) > 0
                  THEN [i \in 1..Len(known) |-> assignInventory(known[i], inv.res)]
                  ELSE known,
         variantIds |-> ids,
         variantInfo |-> info,
         invLevels |-> inv.res,
         locations |-> inv.cache]

\* line 1078: Number(r.inventoryAvailable ?? 0), the stock the report shows
shownStock(r) ==
    IF r.inventoryAvailable = NullNumber THEN 0 ELSE r.inventoryAvailable

\* ---- the GraphQL handler
\* lines 2122-2132: the line fetchOrdersWithLines makes of a line item
graphQLLine(li) ==
    [variantId |-> li.variant_id,
     variantTitle |-> li.variant_title,
     productTitle |-> li.title,
     sku |-> li.sku,
     quantity |-> li.quantity,
     unitPrice |-> li.price,
     lineRevenue |-> li.price * li.quantity]

\* lines 2119-2133
RECURSIVE fetchOrdersWithLines(_)
fetchOrdersWithLines(os) ==
    IF os = << >> THEN << >>
    ELSE [i \in 1..Len(Head(os).line_items) |-> graphQLLine(Head(os).line_items[i])]
         \o fetchOrdersWithLines(Tail(os))

\* line 1898
graphQLKey(li) ==
    IF li.variantId # NoId THEN [variant |-> li.variantId, text |-> << >>]
    ELSE IF li.sku # "" THEN [variant |-> NoId, text |-> <<"SKU:", li.sku>>]
    ELSE [variant |-> NoId,
          text |-> <<"NAME:", li.productTitle, "__", li.variantTitle>>]

\* lines 1899-1915
graphQLFold(byVariant, li) ==
    LET key == graphQLKey(li)
    IN  IF MapHas(byVariant, key)
        THEN MapSet(byVariant, key,
                    [MapGet(byVariant, key) EXCEPT !.soldQty = @ + li.quantity,
                                                   !.revenue = @ + li.lineRevenue,
                                                   !.unitPrice = li.unitPrice])
        ELSE MapSet(byVariant, key,
                    [key |-> key,
                     variantId |-> li.variantId,
                     productTitle |-> li.productTitle,
                     variantTitle |-> IF li.variantTitle # "" THEN li.variantTitle
                                      ELSE li.productTitle,
                     sku |-> li.sku,
                     soldQty |-> li.quantity,
                     unitPrice |-> li.unitPrice,
                     revenue |-> li.lineRevenue,
                     inventoryAvailable |-> NullNumber,
                     inventoryIncoming |-> NullNumber])

\* lines 1896-1917: the lines lines[lo..hi] in order, the range taken by halves
RECURSIVE graphQLAggregateRange(_, _, _, _)
graphQLAggregateRange(lines, lo, hi, byVariant) ==
    IF lo > hi THEN byVariant
    ELSE IF lo = hi THEN graphQLFold(byVariant, lines[lo])
    ELSE LET first == graphQLAggregateRange(lines, lo, (lo + hi) \div 2, byVariant)
         IN  IF first = first   \* the first half is evaluated by now
             THEN graphQLAggregateRange(lines, ((lo + hi) \div 2) + 1, hi, first)
             ELSE first

graphQLAggregate(lines, byVariant) ==
    graphQLAggregateRange(lines, 1, Len(lines), byVariant)

\* ---- the runs explored
\* a line item may lack its variant, its SKU, its title or its title and name;
\* a variant title other than "" is tried on the lines that have neither
\* variant nor SKU; prices are whole tens
LineChoices ==
    {li \in [variant_id : 0..MaxVariant, sku : {"", "S1"}, title : {"", "Shirt"},
             name : {"", "Shirt - M"}, variant_title : {"", "M"},
             quantity : 1..MaxQty, price : {10, 20},
             inventory_item_id : {NoId}] :
        /\ li.title # "" => li.name # ""
        /\ li.variant_title # "" => (li.variant_id = NoId /\ li.sku = "")}

variantLine(v, q) ==
    [variant_id |-> v, sku |-> "", title |-> "Shirt", name |-> "Shirt - M",
     variant_title |-> "", quantity |-> q, price |-> 10,
     inventory_item_id |-> NoId]

skuLine ==
    [variant_id |-> NoId, sku |-> "S1", title |-> "Cap", name |-> "Cap",
     variant_title |-> "", quantity |-> 1, price |-> 10,
     inventory_item_id |-> NoId]

\* a paid order without discounts: its subtotal is the sum of its lines, its
\* total the subtotal and pct percent of tax (a whole amount, the prices being
\* whole tens and pct 0 or 10)
TaxedOrder(lines, pct) ==
    LET sub == SumSeq([i \in 1..Len(lines) |-> lines[i].price * lines[i].quantity])
    IN  [created_at |-> TRUE, line_items |-> lines,
         subtotal_price |-> sub, total_price |-> sub + (sub * pct) \div 100]

\* a paid order without discounts, taxes or shipping
MakeOrder(lines) == TaxedOrder(lines, 0)

TaxPercents == {0, 10}

\* two orders of one line each for variant 1: 3 and 5 units at $10
ExampleOrders == <<MakeOrder(<<variantLine(1, 3)>>), MakeOrder(<<variantLine(1, 5)>>)>>

AggOrders ==
    {<<MakeOrder(<<a>>)>> : a \in LineChoices}
    \cup {<<TaxedOrder(<<a, b>>, pct)>> :
              a \in LineChoices, b \in LineChoices, pct \in TaxPercents}
    \cup {<<MakeOrder(<<a>>), MakeOrder(<<b>>)>> : a \in LineChoices, b \in LineChoices}
    \cup {ExampleOrders}

EnrichOrders ==
    {<<MakeOrder(<<variantLine(1, 2), variantLine(2, 1), skuLine>>)>>,
     <<MakeOrder(<<variantLine(2, 1)>>)>>,
     <<MakeOrder(<<skuLine>>)>>,
     <<MakeOrder(<<variantLine(1, 1)>>), MakeOrder(<<variantLine(2, 2)>>)>>}

\* one order of many variants, so that the items need two chunks
BigOrders ==
    <<MakeOrder([v \in 1..NumBigVariants |-> variantLine(v, IF v % 4 < 2 THEN 2 ELSE 1)])>>

\* every item of variants 1..n stocked at every location
FullLevels(n) ==
    [k \in 1..(3 * n) |->
        [inventory_item_id |-> 100 + ((k - 1) \div 3) + 1,
         location_id |-> ((k - 1) % 3) + 1,
         available |-> AvailableAt(((k - 1) % 3) + 1)]]

LevelWorlds ==
    {LET Stocked(l) == <<l.inventory_item_id, l.location_id>> \in S
     IN  SelectSeq(FullLevels(2), Stocked) :
        S \in SUBSET ((101..102) \X Locations)}

BigLevels ==
    [v \in 1..NumBigVariants |->
        [inventory_item_id |-> 100 + v,
         location_id |-> 1 + (v % 3),
         available |-> AvailableAt(1 + (v % 3))]]

FailureTokens ==
    ({"variant"} \X {1, 2}) \cup ({"chunk"} \X {1, 2}) \cup ({"location"} \X Locations)

FailureSets == {F \in SUBSET FailureTokens : Cardinality(F) <= MaxFailures}

ProductsStart ==
    /\ rows = << >> /\ variantInfo = << >> /\ invLevels = << >> /\ gqlRows = << >>
    /\ gqlEnriched = << >>
    /\ ppc = "input" /\ gpc = "input" /\ epc = "input"
    /\ IdleROP /\ IdleFetch /\ IdleCache /\ IdleAnalysis /\ IdleLimiter
    /\ IdleCursor /\ IdleReorder /\ IdleMail /\ IdleCron

InitAgg ==
    /\ orders \in AggOrders
    /\ includeAllLocations = FALSE
    /\ levels = FullLevels(MaxVariant)
    /\ locationsCache = {}
    /\ failed = {}
    /\ ProductsStart

InitEnrich ==
    /\ \/ orders \in EnrichOrders /\ levels \in LevelWorlds
       \/ orders = BigOrders /\ levels = BigLevels
    /\ includeAllLocations \in BOOLEAN
    /\ locationsCache \in SUBSET Locations
    /\ failed \in FailureSets
    /\ ProductsStart

ProcessProducts ==
    /\ ppc = "input"
    /\ LET r == processProductsComplete(orders, includeAllLocations, levels,
                                        locationsCache, failed)
       IN  /\ rows' = r.rows
           /\ variantInfo' = r.variantInfo
           /\ invLevels' = r.invLevels
           /\ locationsCache' = r.locations
    /\ ppc' = "enriched"
    /\ UNCHANGED <<orders, includeAllLocations, levels, failed, gqlRows, gpc,
                   gqlEnriched, epc>>
    /\ UNCHANGED <<ropVars, fetchVars, cacheVars, analysisVars, limiterVars>>
    /\ UNCHANGED <<cursorVars, reorderVars, mailVars, cronVars>>

AggregateGraphQL ==
    /\ gpc = "input"
    /\ gqlRows' = graphQLAggregate(fetchOrdersWithLines(orders), << >>)
    /\ gpc' = "aggregated"
    /\ UNCHANGED <<orders, includeAllLocations, levels, locationsCache, failed,
                   rows, variantInfo, invLevels, ppc, gqlEnriched, epc>>
    /\ UNCHANGED <<ropVars, fetchVars, cacheVars, analysisVars, limiterVars>>
    /\ UNCHANGED <<cursorVars, reorderVars, mailVars, cronVars>>

NextProducts == ProcessProducts \/ AggregateGraphQL

SpecAgg == InitAgg /\ [][NextProducts]_vars

SpecEnrich == InitEnrich /\ [][NextProducts]_vars

(***************************************************************************)
(* Claims about aggregation and enrichment                                 *)
(***************************************************************************)
\* the quantities of the line items of the collected orders: of all of them,
\* or of those that carry a title or a name
LineQuantities(onlyNamed) ==
    SumSeq([k \in 1..Len(orders) |->
        SumSeq([i \in 1..Len(orders[k].line_items) |->
            LET li == orders[k].line_items[i]
            IN  IF onlyNamed /\ li.title = "" /\ li.name = "" THEN 0
                ELSE li.quantity])])

SoldQtyOf(rs) == SumSeq([i \in 1..Len(rs) |-> rs[i].soldQty])

\* C1 (as the spec states it): after processProductsComplete the soldQty of the
\* rows add up to the quantities of all line items of the collected orders.
SoldQtyEqualsAllQuantities ==
    ppc = "enriched" => SoldQtyOf(rows) = LineQuantities(FALSE)

\* C1 (amended): processProductsComplete skips a line item that has neither
\* title nor name, so its rows add up to the quantities of the line items that
\* have one; the GraphQL handler aggregates every line, so its rows add up to the
\* quantities of all line items.
SoldQtyEqualsAggregatedQuantities ==
    /\ ppc = "enriched" => SoldQtyOf(rows) = LineQuantities(TRUE)
    /\ gpc = "aggregated" => SoldQtyOf(gqlRows) = LineQuantities(FALSE)

\* two orders of one line each, the second line without title and name: the
\* REST rows hold the first quantity only, the GraphQL rows both
UnnamedLineSkipped ==
    /\ ppc = "enriched" /\ gpc = "aggregated"
    /\ Len(orders) = 2
    /\ orders[1].line_items[1].title = "Shirt"
    /\ orders[1].line_items[1].quantity = 2
    /\ orders[2].line_items[1].title = "" /\ orders[2].line_items[1].name = ""
    /\ orders[2].line_items[1].quantity = 1
    /\ SoldQtyOf(rows) = 2
    /\ SoldQtyOf(gqlRows) = 3

\* the available stock of item iid over the levels that satisfy Counted
AvailableOver(iid, Counted(_)) ==
    SumSeq([k \in 1..Len(levels) |->
        IF levels[k].inventory_item_id = iid /\ Counted(levels[k].location_id)
        THEN levels[k].available ELSE 0])

Resolved(r) == r.inventory_item_id # NoId /\ MapHas(invLevels, r.inventory_item_id)

\* C2 (as the spec states it): a resolved row holds the sum of available over
\* the levels of its item, at active locations only unless all locations were
\* asked for.
ResolvedStockIsSumOverActive ==
    ppc = "enriched" =>
        \A i \in 1..Len(rows) :
            Resolved(rows[i]) =>
                LET Counted(l) == includeAllLocations \/ LocationActive(l)
                IN  rows[i].inventoryAvailable =
                        AvailableOver(rows[i].inventory_item_id, Counted)

\* C2 (amended): unless all locations were asked for, a level counts only if
\* its location is active and its record was at hand: in globalCache.locations
\* already, or fetched successfully; a level whose location lookup failed is
\* left out of the sum.
ResolvedStockIsSumOverKnownActive ==
    ppc = "enriched" =>
        \A i \in 1..Len(rows) :
            Resolved(rows[i]) =>
                LET Counted(l) == \/ includeAllLocations
                                  \/ l \in locationsCache /\ LocationActive(l)
                IN  rows[i].inventoryAvailable =
                        AvailableOver(rows[i].inventory_item_id, Counted)

\* 5 and 3 at the two active locations, 100 at the inactive one, no failure: 8
ActiveLevelsSumToEight ==
    /\ ppc = "enriched" /\ ~includeAllLocations /\ failed = {}
    /\ \E i \in 1..Len(rows) :
        /\ rows[i].inventory_item_id = 101
        /\ {<<levels[k].location_id, levels[k].available>> :
                k \in {j \in 1..Len(levels) : levels[j].inventory_item_id = 101}}
           = {<<1, 5>>, <<2, 3>>, <<3, 100>>}
        /\ rows[i].inventoryAvailable = 8

\* ---- C9
OnlyVariantOrChunkFailures == \A f \in failed : f[1] # "location"

\* the rows of the same run had no lookup failed
FailureFreeRows ==
    processProductsComplete(orders, includeAllLocations, levels,
                            locationsCache, {}).rows

VariantLookupFailed(r) == r.variantId # NoId /\ <<"variant", r.variantId>> \in failed

\* the chunk of the inventory request that carried the item of rs[i]
ChunkOfRow(rs, i) ==
    CeilDiv(Cardinality({j \in 1..i : rs[j].inventory_item_id # NoId}), ChunkSize)

ChunkLookupFailed(rs, i) ==
    /\ ~VariantLookupFailed(rs[i])
    /\ rs[i].inventory_item_id # NoId
    /\ <<"chunk", ChunkOfRow(rs, i)>> \in failed

\* every aggregated row is returned and the rows no failure touched show the
\* stock of the failure-free run, whose rows are base
RunDegradesOnly(rs, base) ==
    /\ Len(rs) = Len(base)
    /\ \A i \in 1..Len(rs) :
        /\ rs[i].key = base[i].key
        /\ rs[i].soldQty = base[i].soldQty
        /\ rs[i].revenue = base[i].revenue
        /\ ~VariantLookupFailed(rs[i]) /\ ~ChunkLookupFailed(rs, i)
              => shownStock(rs[i]) = shownStock(base[i])
        /\ VariantLookupFailed(rs[i]) => shownStock(rs[i]) = 0

\* C9 (as the spec states it): with a variant lookup or an inventory chunk
\* failing, processProductsComplete returns every aggregated row, untouched rows
\* keep their stock and every row the failure touched shows stock 0.
AffectedRowsShowZero ==
    [][ppc = "input" /\ ppc' = "enriched" /\ OnlyVariantOrChunkFailures =>
          LET base == FailureFreeRows
          IN  /\ base = base
              /\ RunDegradesOnly(rows', base)
              /\ \A i \in 1..Len(rows') :
                    ChunkLookupFailed(rows', i) => shownStock(rows'[i]) = 0]_vars

\* C9 (amended): a row whose variant lookup failed shows 0; a row whose
\* inventory chunk failed shows the variant's own inventory_quantity when the
\* variant is not managed by Shopify, and 0 when it is.
AffectedRowsShowZeroOrFallback ==
    [][ppc = "input" /\ ppc' = "enriched" /\ OnlyVariantOrChunkFailures =>
          LET base == FailureFreeRows
          IN  /\ base = base
              /\ RunDegradesOnly(rows', base)
              /\ \A i \in 1..Len(rows') :
                    ChunkLookupFailed(rows', i) =>
                        shownStock(rows'[i]) =
                            IF Catalog(rows'[i].variantId).inventory_management
                                   # "shopify"
                            THEN Catalog(rows'[i].variantId).inventory_quantity
                            ELSE 0]_vars

\* the second inventory chunk failed: its rows show the fallback or 0, the rows
\* of the first chunk their summed levels
SecondChunkFailed ==
    /\ ppc = "enriched" /\ failed = {<<"chunk", 2>>}
    /\ Len(rows) > ChunkSize
    /\ \E i \in 1..Len(rows) :
        /\ ChunkLookupFailed(rows, i)
        /\ rows[i].variantMgmt = "" /\ rows[i].inventoryAvailable > 0
    /\ \E i \in 1..Len(rows) :
        /\ ChunkLookupFailed(rows, i)
        /\ rows[i].variantMgmt = "shopify" /\ rows[i].inventoryAvailable = 0
    /\ \E i \in 1..Len(rows) :
        /\ ~ChunkLookupFailed(rows, i)
        /\ Resolved(rows[i]) /\ rows[i].inventoryAvailable > 0

\* ---- C16
RevenueOf(rs) == SumSeq([i \in 1..Len(rs) |-> rs[i].revenue])

Named(li) == ~(li.title = "" /\ li.name = "")

\* price x quantity over the line items of o: all of them, or the named ones
LineSubtotals(o, onlyNamed) ==
    SumSeq([i \in 1..Len(o.line_items) |->
        LET li == o.line_items[i]
        IN  IF onlyNamed /\ ~Named(li) THEN 0 ELSE li.price * li.quantity])

SubtotalIsSumOfLines(o) ==
    o.subtotal_price > 0 /\ o.subtotal_price = LineSubtotals(o, FALSE)

\* (price x quantity / order subtotal) x order total
Share(li, o) == (li.price * li.quantity * o.total_price) \div o.subtotal_price

\* the shares of the named lines of the collected orders that satisfy Counted
SharesOver(Counted(_)) ==
    SumSeq([k \in 1..Len(orders) |->
        SumSeq([i \in 1..Len(orders[k].line_items) |->
            LET li == orders[k].line_items[i]
            IN  IF Named(li) /\ Counted(li) THEN Share(li, orders[k]) ELSE 0])])

\* C16 (as the spec states it): when every collected order has a positive
\* subtotal equal to the sum of its line subtotals, the revenues attributed to
\* the rows add up to the totals of the orders.
AttributedRevenueIsOrderTotal ==
    (ppc = "enriched" /\ \A k \in 1..Len(orders) : SubtotalIsSumOfLines(orders[k]))
        => RevenueOf(rows) = SumSeq([k \in 1..Len(orders) |-> orders[k].total_price])

\* C16 (amended): each line item that has a title or a name adds its share
\* (price x quantity / order subtotal) x order total to its row, a line item
\* that has neither adds nothing: of an order whose subtotal is the sum of its
\* line subtotals the part total x (subtotal of the named lines / subtotal) is
\* attributed, the whole total when all its lines are named.
AttributedRevenueIsNamedShare ==
    (ppc = "enriched" /\ \A k \in 1..Len(orders) : SubtotalIsSumOfLines(orders[k]))
        => /\ \A i \in 1..Len(rows) :
                LET SameKey(li) == lineKey(li) = rows[i].key
                IN  rows[i].revenue = SharesOver(SameKey)
           /\ RevenueOf(rows) =
                SumSeq([k \in 1..Len(orders) |->
                    (orders[k].total_price * LineSubtotals(orders[k], TRUE))
                        \div orders[k].subtotal_price])
           /\ (\A k \in 1..Len(orders) : \A i \in 1..Len(orders[k].line_items) :
                    Named(orders[k].line_items[i]))
                => RevenueOf(rows) =
                        SumSeq([k \in 1..Len(orders) |-> orders[k].total_price])

\* two orders of one line each for the same variant, 3 and 5 units at $10: one
\* row with soldQty 8 and revenue 80
ThreeAndFiveAtTen ==
    /\ ppc = "enriched"
    /\ orders = ExampleOrders
    /\ Len(rows) = 1
    /\ rows[1].soldQty = 8
    /\ rows[1].revenue = 80

\* ---- C18
\* the key the spec gives a line item: the variant identifier if present, else
\* SKU:<sku> if the SKU is present, else NAME:<productTitle>__<variantTitle>
SpecifiedKey(li) ==
    IF li.variant_id # NoId THEN [variant |-> li.variant_id, text |-> << >>]
    ELSE IF li.sku # "" THEN [variant |-> NoId, text |-> <<"SKU:", li.sku>>]
    ELSE [variant |-> NoId, text |-> <<"NAME:", li.title, "__", li.variant_title>>]

\* the line items of the collected orders in input order: all of them, or the
\* named ones
LinesOf(onlyNamed) ==
    LET flat == FlatLines(orders)
        all  == [j \in 1..Len(flat) |-> flat[j].li]
    IN  IF onlyNamed THEN SelectSeq(all, Named) ELSE all

QuantityOver(ls, Counted(_)) ==
    SumSeq([j \in 1..Len(ls) |-> IF Counted(ls[j]) THEN ls[j].quantity ELSE 0])

\* the rows rs fold the lines ls by the specified key: each line is counted in
\* exactly one row, each row counts the lines of its key, and two lines are
\* counted in the same row exactly when their specified keys are equal
FoldsBySpecifiedKey(rs, ls, KeyOf(_)) ==
    /\ \A a \in 1..Len(ls) :
          Cardinality({i \in 1..Len(rs) : rs[i].key = KeyOf(ls[a])}) = 1
    /\ \A i \in 1..Len(rs) :
          LET InRow(li) == KeyOf(li) = rs[i].key
          IN  rs[i].soldQty = QuantityOver(ls, InRow)
    /\ \A a, b \in 1..Len(ls) :
          (KeyOf(ls[a]) = KeyOf(ls[b])) <=> (SpecifiedKey(ls[a]) = SpecifiedKey(ls[b]))

GraphQLKeyOf(li) == graphQLKey(graphQLLine(li))

\* C18: processProductsComplete and the GraphQL handler fold two line items
\* into the same row if and only if the two have the same key, the key being the
\* variant identifier, else SKU:<sku>, else NAME:<productTitle>__<variantTitle>.
RowsFoldBySpecifiedKey ==
    /\ ppc = "enriched" => FoldsBySpecifiedKey(rows, LinesOf(TRUE), lineKey)
    /\ gpc = "aggregated" => FoldsBySpecifiedKey(gqlRows, LinesOf(FALSE), GraphQLKeyOf)

\* the GraphQL handler alone
GraphQLRowsFoldBySpecifiedKey ==
    gpc = "aggregated" => FoldsBySpecifiedKey(gqlRows, LinesOf(FALSE), GraphQLKeyOf)

\* ---- C19
\* the price of the last of the lines ls that satisfies Counted
LastPrice(ls, Counted(_)) ==
    LET js == {j \in 1..Len(ls) : Counted(ls[j])}
    IN  ls[CHOOSE j \in js : \A j2 \in js : j2 <= j].price

UnitPriceIsLastOf(rs, ls, KeyOf(_)) ==
    \A i \in 1..Len(rs) :
        LET InRow(li) == KeyOf(li) = rs[i].key
        IN  rs[i].unitPrice = LastPrice(ls, InRow)

\* C19: after aggregation each row's unitPrice is the unit price of the last
\* line in input order that has the row's key, in processProductsComplete and
\* in the GraphQL handler.
UnitPriceIsLastSeen ==
    /\ ppc = "enriched" => UnitPriceIsLastOf(rows, LinesOf(TRUE), lineKey)
    /\ gpc = "aggregated" => UnitPriceIsLastOf(gqlRows, LinesOf(FALSE), GraphQLKeyOf)

\* the GraphQL handler alone
GraphQLUnitPriceIsLastSeen ==
    gpc = "aggregated" => UnitPriceIsLastOf(gqlRows, LinesOf(FALSE), GraphQLKeyOf)

(***************************************************************************)
(* computeABCAnalysis on bounded lists of rows. Of a row only its revenue  *)
(* is read; revenues are whole amounts, so the percentages are compared    *)
(* exactly.                                                                *)
(***************************************************************************)
MaxRows == 4
MaxRevenue == 3

\* what 0 / 0 gives: every comparison with it is false
NaN == -2

\* the JavaScript <= on numbers
NumberLeq(a, b) == a # NaN /\ b # NaN /\ a <= b

\* lines 685-703; percentages in tenths, as toFixed(1) prints them
computeABCAnalysis(rs) ==
    LET totalRevenue == SumSeq(rs)
        Row(index) ==
            LET cumulativeRevenue == SumRange(rs, 1, index)
                \* cumulativePercent <= limit
                Within(limit) ==
                    IF totalRevenue = 0 THEN NumberLeq(NaN, limit)
                    ELSE cumulativeRevenue * 100 <= limit * totalRevenue
            IN  [revenue |-> rs[index],
                 rank |-> index,
                 revenuePercent |->
                    IF totalRevenue = 0 THEN NaN
                    ELSE ToFixed(rs[index] * 100, totalRevenue, 10),
                 cumulativePercent |->
                    IF totalRevenue = 0 THEN NaN
                    ELSE ToFixed(cumulativeRevenue * 100, totalRevenue, 10),
                 abcCategory |-> IF Within(80) THEN "A"
                                 ELSE IF Within(95) THEN "B" ELSE "C"]
    IN  [index \in 1..Len(rs) |-> Row(index)]

RECURSIVE SeqsUpTo(_, _)
SeqsUpTo(S, n) ==
    IF n = 0 THEN {<< >>}
    ELSE LET shorter == SeqsUpTo(S, n - 1)
         IN  shorter \cup {Append(s, x) : s \in shorter, x \in S}

InitABC ==
    /\ abcIn \in SeqsUpTo(0..MaxRevenue, MaxRows)
    /\ abcData = << >> /\ apc = "input"
    /\ deadIn = NoObject /\ deadStock = << >> /\ dpc = "idle"
    /\ IdleROP /\ IdleFetch /\ IdleCache /\ IdleProducts /\ IdleLimiter
    /\ IdleCursor /\ IdleReorder /\ IdleMail /\ IdleCron

\* handler line 1738
CallComputeABC ==
    /\ apc = "input"
    /\ abcData' = computeABCAnalysis(abcIn)
    /\ apc' = "done"
    /\ UNCHANGED <<abcIn, deadIn, deadStock, dpc>>
    /\ UNCHANGED <<ropVars, fetchVars, cacheVars, prodVars, limiterVars>>
    /\ UNCHANGED <<cursorVars, reorderVars, mailVars, cronVars>>

NextABC == CallComputeABC

SpecABC == InitABC /\ [][NextABC]_vars

\* the running cumulative revenue percentage of row i is at most limit
RunningPercentWithin(i, limit) ==
    SumRange(abcIn, 1, i) * 100 <= limit * SumSeq(abcIn)

\* the rows returned are the rows given, each with exactly one category: A
\* while the running cumulative percentage is <= 80, B while it is <= 95,
\* else C; the cumulative percentages never decrease, no A follows a B or C
\* and no B follows a C
ABCPartitions ==
    /\ Len(abcData) = Len(abcIn)
    /\ \A i \in 1..Len(abcData) :
          /\ abcData[i].revenue = abcIn[i]
          /\ abcData[i].abcCategory \in {"A", "B", "C"}
          /\ abcData[i].abcCategory = "A" <=> RunningPercentWithin(i, 80)
          /\ abcData[i].abcCategory = "B" <=>
                (~RunningPercentWithin(i, 80) /\ RunningPercentWithin(i, 95))
    /\ \A i, j \in 1..Len(abcData) :
          i <= j =>
             /\ NumberLeq(abcData[i].cumulativePercent, abcData[j].cumulativePercent)
             /\ abcData[j].abcCategory = "A" => abcData[i].abcCategory = "A"
             /\ abcData[j].abcCategory = "B" => abcData[i].abcCategory # "C"

\* C11: for every list of rows given to computeABCAnalysis each output row has
\* exactly one category among A, B, C, assigned by the running cumulative
\* revenue percentage (A while <= 80, B while <= 95, else C), and the cumulative
\* percentage is non-decreasing along the sequence.
ABCPartitionsEveryList == apc = "done" => ABCPartitions

\* the same for the lists whose total revenue is positive
ABCPartitionsPositiveTotal ==
    (apc = "done" /\ SumSeq(abcIn) > 0) => ABCPartitions

(***************************************************************************)
(* detectDeadStock: the variants of the report that no order of the        *)
(* lookback window sold, with the stock and the value they hold. The       *)
(* orders of the window come in pages, here of one order of one line each. *)
(***************************************************************************)
NumDeadVariants == 3
MaxDeadPages == 2

\* GET /variants/{id}.json: variant.price
VariantPrice(v) == 10 + 10 * (v % 2)

\* fetchOrdersPaidInRange lines 314-326: the pages before the first one whose
\* call returned null (failAt; 0: none did)
collectedPages(pages, failAt) ==
    IF failAt = 0 THEN pages ELSE SubSeq(pages, 1, failAt - 1)

\* lines 655: the comparator b.totalValue - a.totalValue of a stable sort
RECURSIVE sortByValue(_)
sortByValue(items) ==
    IF items = << >> THEN << >>
    ELSE LET rest == sortByValue(SubSeq(items, 1, Len(items) - 1))
             last == items[Len(items)]
             n == Cardinality({j \in 1..Len(rest) :
                                  rest[j].totalValue >= last.totalValue})
         IN  SubSeq(rest, 1, n) \o <<last>> \o SubSeq(rest, n + 1, Len(rest))

\* lines 607-657
detectDeadStock(variantIds, reportPeriod, pages, failAt, lv, cache, fails) ==
    IF reportPeriod \in {"weekly", "monthly"} THEN << >>
    ELSE
    LET orders60 == collectedPages(pages, failAt)
        soldVariants == {orders60[i] : i \in 1..Len(orders60)} \ {NoId}
        NotSold(id) == id \notin soldVariants
        deadVariantIds == SelectSeq(variantIds, NotSold)
        deadVariantInfo ==
            fetchVariantsByIds({deadVariantIds[i] : i \in 1..Len(deadVariantIds)}, fails)
        Known(id) == id \in DOMAIN deadVariantInfo
        known == SelectSeq(deadVariantIds, Known)
        deadItemIds == [i \in 1..Len(known) |->
                            deadVariantInfo[known[i]].inventory_item_id]
        deadInventory ==
            fetchInventoryLevelsForItems(deadItemIds, FALSE, lv, cache, fails).res
        Item(vid) ==
            LET info == deadVariantInfo[vid]
                atLevels == IF MapHas(deadInventory, info.inventory_item_id)
                            THEN MapGet(deadInventory, info.inventory_item_id).available
                            ELSE 0
                quantity == IF atLevels # 0 THEN atLevels ELSE info.inventory_quantity
            IN  [variantId |-> vid, quantity |-> quantity,
                 unitPrice |-> VariantPrice(vid),
                 totalValue |-> quantity * VariantPrice(vid)]
        InStock(item) == item.quantity > 0
    IN  IF deadVariantIds = << >> THEN << >>
        ELSE sortByValue(SelectSeq([i \in 1..Len(known) |-> Item(known[i])], InStock))

\* the lists of distinct variants
DeadVariantLists ==
    {s \in SeqsUpTo(1..NumDeadVariants, NumDeadVariants) :
        \A i, j \in 1..Len(s) : s[i] = s[j] => i = j}

\* what the shop holds: every item stocked everywhere, or nothing recorded
DeadLevelWorlds == {FullLevels(NumDeadVariants), << >>}

InitDead ==
    /\ \E ids \in DeadVariantLists, p \in {"daily", "weekly"},
          pages \in SeqsUpTo(1..NumDeadVariants, MaxDeadPages),
          lv \in DeadLevelWorlds, fails \in {{}, {<<"variant", 1>>}} :
         \E failAt \in 0..Len(pages) :
            deadIn = [variantIds |-> ids, period |-> p, pages |-> pages,
                      failAt |-> failAt, levels |-> lv, fails |-> fails]
    /\ deadStock = << >> /\ dpc = "input"
    /\ abcIn = << >> /\ abcData = << >> /\ apc = "idle"
    /\ IdleROP /\ IdleFetch /\ IdleCache /\ IdleProducts /\ IdleLimiter
    /\ IdleCursor /\ IdleReorder /\ IdleMail /\ IdleCron

\* handler line 1698
CallDetectDeadStock ==
    /\ dpc = "input"
    /\ deadStock' = detectDeadStock(deadIn.variantIds, deadIn.period, deadIn.pages,
                                    deadIn.failAt, deadIn.levels, {}, deadIn.fails)
    /\ dpc' = "done"
    /\ UNCHANGED <<abcIn, abcData, apc, deadIn>>
    /\ UNCHANGED <<ropVars, fetchVars, cacheVars, prodVars, limiterVars>>
    /\ UNCHANGED <<cursorVars, reorderVars, mailVars, cronVars>>

NextDead == CallDetectDeadStock

SpecDead == InitDead /\ [][NextDead]_vars

\* the variants sold by the orders of the lookback window
SoldInWindow == {deadIn.pages[i] : i \in 1..Len(deadIn.pages)}

\* no listed variant was sold in the window, every listed item has a quantity
\* above 0 and its total value is quantity x unit price, and the list is in
\* descending order of total value
DeadStockListIsSound ==
    /\ \A i \in 1..Len(deadStock) :
          /\ deadStock[i].variantId \notin SoldInWindow
          /\ deadStock[i].quantity > 0
          /\ deadStock[i].totalValue = deadStock[i].quantity * deadStock[i].unitPrice
    /\ \A i, j \in 1..Len(deadStock) :
          i <= j => deadStock[i].totalValue >= deadStock[j].totalValue

\* C12: in every run a variant that was sold at least once inside the lookback
\* window never appears in the dead-stock list; the list holds only items with
\* quantity > 0 and is sorted by total value (quantity x unit price) descending.
DeadStockExcludesSold == dpc = "done" => DeadStockListIsSound

\* the same for the runs in which every page of the window was collected
DeadStockExcludesSoldWhenCollected ==
    (dpc = "done" /\ deadIn.failAt = 0) => DeadStockListIsSound

\* a complete run that listed two variants and left out one that has no stock
DeadStockListedTwo ==
    /\ dpc = "done" /\ deadIn.failAt = 0
    /\ Len(deadIn.variantIds) = 3
    /\ Len(deadStock) = 2
    /\ deadStock[1].totalValue > deadStock[2].totalValue

(***************************************************************************)
(* The ShopifyRateLimiter shared by the requests of one process. A request *)
(* calls waitIfNeeded before each external call; between its await and the *)
(* timer's callback other requests run.                                    *)
(***************************************************************************)
MaxCalls == 2
MaxClockTicks == 4

\* this.minInterval
MinInterval == 200
\* Date.now() when the first request calls: long after lastCall = 0
StartClock == 5 * MinInterval
ClockSteps == {50, 150}

InitLimiter ==
    /\ lastCall = 0 /\ callCount = 0
    /\ clock = StartClock /\ clockTicks = 0
    /\ caller = [r \in Requests |-> [pc |-> "idle", wakeAt |-> 0, calls |-> 0]]
    /\ released = << >>
    /\ IdleROP /\ IdleFetch /\ IdleCache /\ IdleProducts /\ IdleAnalysis
    /\ IdleCursor /\ IdleReorder /\ IdleMail /\ IdleCron

\* waitIfNeeded lines 149-155: up to the await, or to the end when no wait is
\* needed
WaitIfNeeded(r) ==
    /\ caller[r].pc = "idle"
    /\ caller[r].calls < MaxCalls
    /\ LET elapsed == clock - lastCall
       IN  IF elapsed < MinInterval
           THEN /\ caller' = [caller EXCEPT ![r].pc = "waiting",
                                 ![r].wakeAt = clock + (MinInterval - elapsed)]
                /\ UNCHANGED <<lastCall, callCount, released>>
           ELSE /\ lastCall' = clock
                /\ callCount' = callCount + 1
                /\ released' = Append(released, clock)
                /\ caller' = [caller EXCEPT ![r].pc = "calling"]
    /\ UNCHANGED <<clock, clockTicks>>
    /\ UNCHANGED <<ropVars, fetchVars, cacheVars, prodVars, analysisVars>>
    /\ UNCHANGED <<cursorVars, reorderVars, mailVars, cronVars>>

\* waitIfNeeded lines 153-155: the timer has fired, not before its time
TimerFires(r) ==
    /\ caller[r].pc = "waiting"
    /\ clock >= caller[r].wakeAt
    /\ lastCall' = clock
    /\ callCount' = callCount + 1
    /\ released' = Append(released, clock)
    /\ caller' = [caller EXCEPT ![r].pc = "calling"]
    /\ UNCHANGED <<clock, clockTicks>>
    /\ UNCHANGED <<ropVars, fetchVars, cacheVars, prodVars, analysisVars>>
    /\ UNCHANGED <<cursorVars, reorderVars, mailVars, cronVars>>

\* safeShopifyCall line 221: fn() has returned
CallReturns(r) ==
    /\ caller[r].pc = "calling"
    /\ caller' = [caller EXCEPT ![r].pc = "idle", ![r].calls = @ + 1]
    /\ UNCHANGED <<lastCall, callCount, released, clock, clockTicks>>
    /\ UNCHANGED <<ropVars, fetchVars, cacheVars, prodVars, analysisVars>>
    /\ UNCHANGED <<cursorVars, reorderVars, mailVars, cronVars>>

\* Time passes while every request waits at an await.
ClockAdvances ==
    /\ clockTicks < MaxClockTicks
    /\ \E step \in ClockSteps : clock' = clock + step
    /\ clockTicks' = clockTicks + 1
    /\ UNCHANGED <<lastCall, callCount, caller, released>>
    /\ UNCHANGED <<ropVars, fetchVars, cacheVars, prodVars, analysisVars>>
    /\ UNCHANGED <<cursorVars, reorderVars, mailVars, cronVars>>

NextLimiter ==
    \/ \E r \in Requests : WaitIfNeeded(r)
    \/ \E r \in Requests : TimerFires(r)
    \/ \E r \in Requests : CallReturns(r)
    \/ ClockAdvances

SpecLimiter == InitLimiter /\ [][NextLimiter]_vars

SpacingKept ==
    \A i \in 1..(Len(released) - 1) : released[i + 1] - released[i] >= 200

\* C13: any two consecutive calls released by the shared rate limiter start at
\* least 200 ms apart, for every sequence of calls, including the calls of two
\* requests interleaved in the same process.
ReleasedCallsSpaced == SpacingKept

\* the same while a single request calls
ReleasedCallsSpacedSingleRequest ==
    (\E r \in Requests : caller[r].pc = "idle" /\ caller[r].calls = 0) => SpacingKept

(***************************************************************************)
(* processProductsCompleteGraphQL (the GraphQL enrichment) beside          *)
(* processProductsComplete, on the same orders and the same store.         *)
(***************************************************************************)
\* processProductsCompleteGraphQL lines 563-586: one line item, not validated
aggregateLineGraphQL(byVariant, li, o) ==
    LET key == lineKey(li)
        prev == IF MapHas(byVariant, key) THEN MapGet(byVariant, key)
                ELSE [newRow(li) EXCEPT !.inventory_item_id = NoId]
    IN  MapSet(byVariant, key, accumulate(prev, li, o))

\* lines 561-587: the line items of the orders from the k-th on, in order
RECURSIVE aggregateGraphQLFrom(_, _, _)
aggregateGraphQLFrom(os, k, byVariant) ==
    IF k > Len(os) THEN byVariant
    ELSE LET RECURSIVE Lines(_, _)
             Lines(i, acc) ==
                IF i > Len(os[k].line_items) THEN acc
                ELSE Lines(i + 1, aggregateLineGraphQL(acc, os[k].line_items[i], os[k]))
         IN  aggregateGraphQLFrom(os, k + 1, Lines(1, byVariant))

\* fetchVariantsInventoryGraphQL: per variant the item, the sum of available
\* over its levels (at active locations unless includeInactive) and the
\* fields the REST lookup would give
fetchVariantsInventoryGraphQL(ids, includeInactive, lv) ==
    [v \in ids |->
        LET item == Catalog(v).inventory_item_id
            totalInventory ==
                SumSeq([k \in 1..Len(lv) |->
                    IF /\ lv[k].inventory_item_id = item
                       /\ (includeInactive \/ LocationActive(lv[k].location_id))
                    THEN lv[k].available ELSE 0])
        IN  [inventory_item_id |-> item,
             inventory_quantity |-> Catalog(v).inventory_quantity,
             inventory_management |-> "shopify",
             inventoryAvailable |-> totalInventory]]

\* processProductsCompleteGraphQL lines 556-616
processProductsCompleteGraphQL(os, includeAll, lv) ==
    LET byVariant == aggregateGraphQLFrom(os, 1, << >>)
        sorted == sortRows(byVariant)
        ids == {sorted[i].variantId : i \in 1..Len(sorted)} \ {NoId}
        info == fetchVariantsInventoryGraphQL(ids, includeAll, lv)
        Apply(r) ==
            IF r.variantId # NoId
            THEN [r EXCEPT !.inventory_item_id = info[r.variantId].inventory_item_id,
                           !.inventoryAvailable = info[r.variantId].inventoryAvailable,
                           !.variantFallbackQty = info[r.variantId].inventory_quantity,
                           !.variantMgmt = info[r.variantId].inventory_management]
            ELSE r
    IN  [i \in 1..Len(sorted) |-> Apply(sorted[i])]

\* a line item without title and name
unnamedLine ==
    [variant_id |-> 1, sku |-> "", title |-> "", name |-> "",
     variant_title |-> "", quantity |-> 1, price |-> 10,
     inventory_item_id |-> NoId]

EquivOrders ==
    EnrichOrders \cup {<<MakeOrder(<<variantLine(2, 1), unnamedLine>>)>>}

InitEquiv ==
    /\ orders \in EquivOrders
    /\ levels \in LevelWorlds
    /\ includeAllLocations \in BOOLEAN
    /\ locationsCache = {}
    /\ failed = {}
    /\ ProductsStart

ProcessProductsGraphQL ==
    /\ epc = "input"
    /\ gqlEnriched' = processProductsCompleteGraphQL(orders, includeAllLocations, levels)
    /\ epc' = "enriched"
    /\ UNCHANGED <<orders, includeAllLocations, levels, locationsCache, failed,
                   rows, variantInfo, invLevels, gqlRows, ppc, gpc>>
    /\ UNCHANGED <<ropVars, fetchVars, cacheVars, analysisVars, limiterVars>>
    /\ UNCHANGED <<cursorVars, reorderVars, mailVars, cronVars>>

NextEquiv == ProcessProducts \/ ProcessProductsGraphQL

SpecEquiv == InitEquiv /\ [][NextEquiv]_vars

BothEnriched == ppc = "enriched" /\ epc = "enriched" /\ failed = {}

\* C17: for the same orders, the same catalog, inventory and location data and
\* the same includeInactive flag, processProductsCompleteGraphQL and
\* processProductsComplete produce the same number of rows and assign the same
\* inventoryAvailable to every row.
EnrichmentsAgree ==
    BothEnriched =>
        /\ Len(gqlEnriched) = Len(rows)
        /\ \A i \in 1..Len(rows) :
              \E j \in 1..Len(gqlEnriched) :
                 /\ gqlEnriched[j].key = rows[i].key
                 /\ gqlEnriched[j].inventoryAvailable = rows[i].inventoryAvailable

\* the two agree on the rows whose item has a level counted by the REST lookup
EnrichmentsAgreeOnResolvedRows ==
    BothEnriched =>
        \A i \in 1..Len(rows) :
            Resolved(rows[i]) =>
                \E j \in 1..Len(gqlEnriched) :
                   /\ gqlEnriched[j].key = rows[i].key
                   /\ gqlEnriched[j].inventoryAvailable = rows[i].inventoryAvailable

(***************************************************************************)
(* Rows without resolved inventory levels (processProductsComplete, lines  *)
(* 510-524), checked under SpecEnrich.                                     *)
(***************************************************************************)
\* the row carries an inventory item and no level data came back for it
Unresolved(r) == r.inventory_item_id # NoId /\ ~Resolved(r)

\* C23: a row with an inventory item for which no level data resolved holds the
\* variant's own on-hand quantity only when the variant's inventory_management
\* is not "shopify"; a variant managed by Shopify without level data holds 0.
UnresolvedFallsBackUnlessManaged ==
    ppc = "enriched" =>
        \A i \in 1..Len(rows) :
            Unresolved(rows[i]) =>
                rows[i].inventoryAvailable =
                    IF Catalog(rows[i].variantId).inventory_management # "shopify"
                    THEN Catalog(rows[i].variantId).inventory_quantity
                    ELSE 0

\* no levels at all: variant 2 (not managed) holds its own 6, variant 1
\* (managed by Shopify) holds 0
UnmanagedSixManagedZero ==
    /\ ppc = "enriched" /\ failed = {} /\ levels = << >>
    /\ \E i, j \in 1..Len(rows) :
        /\ rows[i].variantId = 2 /\ Unresolved(rows[i])
        /\ rows[i].inventoryAvailable = 6
        /\ rows[j].variantId = 1 /\ Unresolved(rows[j])
        /\ rows[j].inventoryAvailable = 0

\* C24: after enrichment every row keyed by SKU or name (its variant id could
\* not be resolved) has inventoryAvailable = 0, whatever the other rows of the
\* run are, a run in which no row has an inventory item included.
FallbackRowsHoldZero ==
    ppc = "enriched" =>
        \A i \in 1..Len(rows) :
            rows[i].variantId = NoId => rows[i].inventoryAvailable = 0

\* What holds instead: the row holds 0 when some row of the run has an
\* inventory item, and null (the seed of line 474) when none has.
FallbackRowsHoldZeroOrNull ==
    ppc = "enriched" =>
        \A i \in 1..Len(rows) :
            rows[i].variantId = NoId =>
                rows[i].inventoryAvailable =
                    IF \E j \in 1..Len(rows) : rows[j].inventory_item_id # NoId
                    THEN 0 ELSE NullNumber

(***************************************************************************)
(* The cursor-based order collector of the GraphQL handler                 *)
(* (fetchOrdersWithLines, lines 2084-2140).  The store answers each        *)
(* request with up to MaxEdges orders of one line item each and says       *)
(* whether a further page exists; it has at most MaxPagesServed pages.     *)
(***************************************************************************)
MaxEdges == 2
MaxPagesServed == 102

InitCursor ==
    /\ cursor = 0 /\ hasNext = TRUE /\ cursorPages = 0 /\ linesOut = 0
    /\ cpc = "loop"
    /\ IdleROP /\ IdleFetch /\ IdleCache /\ IdleProducts /\ IdleAnalysis
    /\ IdleLimiter /\ IdleReorder /\ IdleMail /\ IdleCron

\* line 2116, shopifyGraphQL throwing (line 2075): nothing catches it
GraphQLThrows ==
    /\ cpc = "loop" /\ hasNext
    /\ cursorPages' = cursorPages + 1
    /\ cpc' = "threw"
    /\ UNCHANGED <<cursor, hasNext, linesOut>>
    /\ UNCHANGED <<ropVars, fetchVars, cacheVars, prodVars, analysisVars>>
    /\ UNCHANGED <<limiterVars, reorderVars, mailVars, cronVars>>

\* lines 2089-2137, one round of the loop with a page arriving: n edges and
\* pageInfo.hasNextPage = more.  With more and no edge, line 2136 reads
\* .cursor of undefined and throws.
PageArrives ==
    /\ cpc = "loop" /\ hasNext
    /\ \E n \in 0..MaxEdges :
       \E more \in (IF cursorPages + 1 < MaxPagesServed THEN BOOLEAN ELSE {FALSE}) :
          /\ cursorPages' = cursorPages + 1
          /\ linesOut' = linesOut + n
          /\ hasNext' = more
          /\ IF more /\ n = 0
             THEN cpc' = "threw" /\ UNCHANGED cursor
             ELSE /\ cursor' = IF more THEN linesOut + n ELSE 0
                  /\ UNCHANGED cpc
    /\ UNCHANGED <<ropVars, fetchVars, cacheVars, prodVars, analysisVars>>
    /\ UNCHANGED <<limiterVars, reorderVars, mailVars, cronVars>>

\* lines 2089, 2139: the loop condition fails, out is returned
ReturnOut ==
    /\ cpc = "loop" /\ ~hasNext
    /\ cpc' = "done"
    /\ UNCHANGED <<cursor, hasNext, cursorPages, linesOut>>
    /\ UNCHANGED <<ropVars, fetchVars, cacheVars, prodVars, analysisVars>>
    /\ UNCHANGED <<limiterVars, reorderVars, mailVars, cronVars>>

NextCursor == GraphQLThrows \/ PageArrives \/ ReturnOut

SpecCursor == InitCursor /\ [][NextCursor]_vars

\* C21: the cursor-based collector obeys the runaway protection of the
\* link-based one: it stops after at most 100 pages even if every page reports
\* hasNextPage = true.
CursorCollectorWithin100Pages == cursorPages <= PageCeiling

\* What holds instead: the loop asks for a page as long as the last one
\* reported a further page, and returns only after a page that reports none.
CursorCollectorStopsOnlyAtLastPage ==
    /\ cpc = "done" => ~hasNext
    /\ (cpc = "loop" /\ cursorPages > 0 /\ hasNext) => cursor = linesOut

(***************************************************************************)
(* The reorder list: handler lines 1711-1736 (ropRows) and renderROPTable  *)
(* lines 1123-1134.  rows holds one row per variant, in any order of stock *)
(* and recent sales.                                                       *)
(***************************************************************************)
MaxReorderRows == 3
HandlerLeadDays == 7
HandlerSafetyDays == 3

StockChoices == {NullNumber, 0, 1, 2, 9, 30}
SalesChoices == {0, 3, 30}

\* lines 1715, 1722: Number(r.inventoryAvailable || 0)
onHandOf(r) == IF r.inventoryAvailable = NullNumber THEN 0 ELSE r.inventoryAvailable

\* lines 1711-1731: the object the map callback returns for row r
ropRowOf(r, sales) ==
    LET sales30d == sales[r.variantId]
        rop == computeROP([sales30d |-> sales30d, onHand |-> onHandOf(r),
                           leadDays |-> HandlerLeadDays,
                           safetyDays |-> HandlerSafetyDays],
                          [lead |-> 0, safety |-> 0])
    IN  [variantId |-> r.variantId, inventoryAvailable |-> r.inventoryAvailable,
         onHand |-> onHandOf(r), sales30d |-> sales30d, rop |-> rop.rop,
         target |-> rop.target, qty |-> rop.qty, urgency |-> rop.urgency]

\* the filter without its second operand
qualifiesByQuantity(r) == r.qty > 0

\* line 1732
qualifies(r) == r.qty > 0 \/ r.onHand <= 1

\* lines 1734, 1129: the object urgencyOrder
urgencyOrder(u) == CASE u = "critical" -> 0 [] u = "high" -> 1 [] u = "medium" -> 2

\* line 1735: urgencyOrder[u] || 3
orderOrThree(u) == IF urgencyOrder(u) # 0 THEN urgencyOrder(u) ELSE 3

\* line 1735: the comparator of the handler
compareROPRows(a, b) ==
    IF orderOrThree(a.urgency) - orderOrThree(b.urgency) # 0
    THEN orderOrThree(a.urgency) - orderOrThree(b.urgency)
    ELSE b.sales30d - a.sales30d

\* lines 1130-1133: the comparator of renderROPTable, urgencyOrder[u] ?? 3
compareTableRows(a, b) ==
    IF urgencyOrder(a.urgency) # urgencyOrder(b.urgency)
    THEN urgencyOrder(a.urgency) - urgencyOrder(b.urgency)
    ELSE b.sales30d - a.sales30d

\* Array.prototype.sort, which is stable: items[i] comes after the items that
\* compare below it and after the earlier items that compare equal to it
stableSort(items, compare(_, _)) ==
    LET n == Len(items)
        before(i) == {j \in 1..n :
                        \/ compare(items[j], items[i]) < 0
                        \/ compare(items[j], items[i]) = 0 /\ j < i}
    IN  [p \in 1..n |-> items[CHOOSE i \in 1..n : Cardinality(before(i)) = p - 1]]

\* lines 1711-1736
buildROPRows(rs, sales) ==
    stableSort(SelectSeq([i \in 1..Len(rs) |-> ropRowOf(rs[i], sales)], qualifies),
               compareROPRows)

InitReorder ==
    /\ \E n \in 1..MaxReorderRows :
          /\ reportRows \in {[i \in 1..n |-> [variantId |-> i,
                                              inventoryAvailable |-> st[i]]] :
                                st \in [1..n -> StockChoices]}
          /\ sales30 \in [1..n -> SalesChoices]
    /\ ropRows = << >> /\ sortedRows = << >> /\ rpc = "input"
    /\ IdleROP /\ IdleFetch /\ IdleCache /\ IdleProducts /\ IdleAnalysis
    /\ IdleLimiter /\ IdleCursor /\ IdleMail /\ IdleCron

BuildROPRows ==
    /\ rpc = "input"
    /\ ropRows' = buildROPRows(reportRows, sales30)
    /\ rpc' = "built"
    /\ UNCHANGED <<reportRows, sales30, sortedRows>>
    /\ UNCHANGED <<ropVars, fetchVars, cacheVars, prodVars, analysisVars>>
    /\ UNCHANGED <<limiterVars, cursorVars, mailVars, cronVars>>

\* renderROPTable(ropRows), lines 1123-1134
RenderROPTable ==
    /\ rpc = "built"
    /\ sortedRows' = stableSort(ropRows, compareTableRows)
    /\ rpc' = "rendered"
    /\ UNCHANGED <<reportRows, sales30, ropRows>>
    /\ UNCHANGED <<ropVars, fetchVars, cacheVars, prodVars, analysisVars>>
    /\ UNCHANGED <<limiterVars, cursorVars, mailVars, cronVars>>

NextReorder == BuildROPRows \/ RenderROPTable

SpecReorder == InitReorder /\ [][NextReorder]_vars

\* the suggested quantity of row r: max(0, target - onHand), the target being
\* the sales of 7 + 3 + 14 days at the velocity of the last 30
SuggestedQty(r) ==
    Max(0, CeilDiv(sales30[r.variantId] * (7 + 3 + 14), 30) - onHandOf(r))

InROPRows(r) == \E j \in 1..Len(ropRows) : ropRows[j].variantId = r.variantId

\* C25: a row is in the reorder list if and only if its suggested quantity is
\* > 0 or its onHand is <= 1: no row meeting the condition is omitted, no
\* other row is included, and no row is listed twice.
ReorderListIsTheQualifyingRows ==
    rpc # "input" =>
        /\ \A i \in 1..Len(reportRows) :
              InROPRows(reportRows[i]) <=>
                  (SuggestedQty(reportRows[i]) > 0 \/ onHandOf(reportRows[i]) <= 1)
        /\ \A j \in 1..Len(ropRows) :
              /\ \E i \in 1..Len(reportRows) :
                    reportRows[i].variantId = ropRows[j].variantId
              /\ \A k \in 1..Len(ropRows) :
                    ropRows[k].variantId = ropRows[j].variantId => k = j

\* a row listed for its stock alone (nothing to order, 1 on hand), a row listed
\* for its quantity alone (2 on hand) and a row left out
ListedForStockListedForQuantityLeftOut ==
    /\ rpc = "built"
    /\ \E j \in 1..Len(ropRows) : ropRows[j].qty = 0 /\ ropRows[j].onHand = 1
    /\ \E j \in 1..Len(ropRows) : ropRows[j].qty > 0 /\ ropRows[j].onHand = 2
    /\ \E i \in 1..Len(reportRows) : ~InROPRows(reportRows[i])

\* s is in the order critical, high, medium, and by sales30d descending within
\* one urgency
CriticalFirst(s) ==
    \A i, j \in 1..Len(s) :
        i < j =>
            \/ urgencyOrder(s[i].urgency) < urgencyOrder(s[j].urgency)
            \/ /\ s[i].urgency = s[j].urgency
               /\ s[i].sales30d >= s[j].sales30d

\* C28: the ropRows of a report are ordered by urgency, critical rows first,
\* then high, then medium, and by sales30d descending within one urgency.
ROPRowsCriticalFirst == rpc # "input" => CriticalFirst(ropRows)

\* What holds instead: the rows of the rendered table are in that order; in
\* ropRows the critical rows come last, after high and medium.
TableRowsCriticalFirst ==
    /\ rpc = "rendered" => CriticalFirst(sortedRows)
    /\ rpc # "input" =>
          \A i, j \in 1..Len(ropRows) :
              (i < j /\ ropRows[i].urgency = "critical") =>
                  /\ ropRows[j].urgency = "critical"
                  /\ ropRows[i].sales30d >= ropRows[j].sales30d

(***************************************************************************)
(* The rows the ABC classifier is given: handler lines 1691 and 1738, the  *)
(* rows of processProductsComplete handed on as line 494 sorted them.      *)
(***************************************************************************)
\* one line of a variant at $10 or $30
ReportLines ==
    {[variantLine(v, q) EXCEPT !.price = p] :
        v \in 1..MaxVariant, q \in 1..MaxQty, p \in {10, 30}}

ReportOrders ==
    {<<MakeOrder(<<a>>), MakeOrder(<<b>>)>> : a \in ReportLines, b \in ReportLines}
    \cup {<<MakeOrder(<<a, b>>)>> : a \in ReportLines, b \in ReportLines}

InitReport ==
    /\ orders \in ReportOrders
    /\ includeAllLocations = FALSE
    /\ levels = FullLevels(MaxVariant)
    /\ locationsCache = {}
    /\ failed = {}
    /\ rows = << >> /\ variantInfo = << >> /\ invLevels = << >> /\ gqlRows = << >>
    /\ gqlEnriched = << >>
    /\ ppc = "input" /\ gpc = "idle" /\ epc = "idle"
    /\ IdleROP /\ IdleFetch /\ IdleCache /\ IdleAnalysis /\ IdleLimiter
    /\ IdleCursor /\ IdleReorder /\ IdleMail /\ IdleCron

\* handler line 1738: computeABCAnalysis(rows)
ClassifyRows ==
    /\ ppc = "enriched" /\ apc = "idle"
    /\ abcIn' = [i \in 1..Len(rows) |-> rows[i].revenue]
    /\ abcData' = computeABCAnalysis(abcIn')
    /\ apc' = "done"
    /\ UNCHANGED <<deadIn, deadStock, dpc>>
    /\ UNCHANGED <<ropVars, fetchVars, cacheVars, prodVars, limiterVars>>
    /\ UNCHANGED <<cursorVars, reorderVars, mailVars, cronVars>>

NextReport == ProcessProducts \/ ClassifyRows

SpecReport == InitReport /\ [][NextReport]_vars

\* C26: the ABC classifier runs on rows sorted by revenue descending: along
\* abcRows revenue is non-increasing and rank is the 1-based position in that
\* revenue order.
ABCRowsByRevenueDescending ==
    apc = "done" =>
        \A i \in 1..Len(abcData) :
            /\ abcData[i].rank = i
            /\ \A j \in 1..Len(abcData) :
                  i < j => abcData[i].revenue >= abcData[j].revenue

\* What holds instead: the classified rows are in the order of line 494, units
\* sold descending and revenue descending among rows of equal units, and rank
\* is the position in that order.
ABCRowsBySoldQuantityDescending ==
    apc = "done" =>
        /\ Len(abcData) = Len(rows)
        /\ \A i \in 1..Len(abcData) :
            /\ abcData[i].rank = i
            /\ abcData[i].revenue = rows[i].revenue
            /\ \A j \in 1..Len(abcData) :
                  i < j =>
                      \/ rows[i].soldQty > rows[j].soldQty
                      \/ /\ rows[i].soldQty = rows[j].soldQty
                         /\ abcData[i].revenue >= abcData[j].revenue

(***************************************************************************)
(* The outputs of the handler (lines 1660-1682 and 1776-1823) for requests *)
(* of one cache key, served one after the other: HTML, email preview or    *)
(* email JSON, from the cache or freshly built.  A body is modelled by the *)
(* names of its fields.                                                    *)
(***************************************************************************)
MaxMailRequests == 3

\* lines 1776-1786: the fields of reportData
ReportDataKeys ==
    {"success", "label", "tz", "now", "rows", "orders", "conversions",
     "comparison", "timing", "deadStockData", "ropRows", "abcData",
     "locationStats", "performanceStats", "includeAllLocations", "stats"}

\* lines 1794-1798: the fields of emailTemplate
EmailTemplateKeys == {"subject", "html", "text"}

\* line 30: { ...cached.data, cached: true, cacheAge }
cachedKeys(data) == data.keys \cup {"cached", "cacheAge"}

\* line 1674: res.status(200).json(cached)
hitEmailBody(data) ==
    [contentType |-> "application/json", xcache |-> "HIT",
     keys |-> cachedKeys(data), emailKeys |-> {}]

\* lines 1800-1807
missEmailBody ==
    [contentType |-> "application/json", xcache |-> "MISS",
     keys |-> {"success", "email", "stats", "performanceStats"},
     emailKeys |-> EmailTemplateKeys]

\* lines 1676-1679, 1810-1823: a page
htmlBody(xcache) ==
    [contentType |-> "text/html", xcache |-> xcache, keys |-> {}, emailKeys |-> {}]

MailQueries == [email : BOOLEAN, preview : BOOLEAN, debug : BOOLEAN]

InitMail ==
    /\ mailCache = NoObject /\ mailReq = NoObject /\ mailRes = NoObject
    /\ mailServed = 0 /\ mpc = "wait"
    /\ IdleROP /\ IdleFetch /\ IdleCache /\ IdleProducts /\ IdleAnalysis
    /\ IdleLimiter /\ IdleCursor /\ IdleReorder /\ IdleCron

\* lines 1657-1663
MailArrive ==
    /\ mpc = "wait" /\ mailServed < MaxMailRequests
    /\ mailReq' \in MailQueries
    /\ mailRes' = NoObject
    /\ mpc' = "read"
    /\ UNCHANGED <<mailCache, mailServed>>
    /\ UNCHANGED <<ropVars, fetchVars, cacheVars, prodVars, analysisVars>>
    /\ UNCHANGED <<limiterVars, cursorVars, reorderVars, cronVars>>

\* lines 1669-1682 with getFromCache lines 21-31
MailReadCache ==
    /\ mpc = "read"
    /\ IF mailReq.debug \/ mailCache = NoObject
       THEN mpc' = "build" /\ UNCHANGED <<mailCache, mailRes, mailServed>>
       ELSE IF ~mailCache.fresh
       THEN /\ mailCache' = NoObject
            /\ mpc' = "build" /\ UNCHANGED <<mailRes, mailServed>>
       ELSE /\ mailRes' = IF mailReq.email /\ ~mailReq.preview
                          THEN hitEmailBody(mailCache.data)
                          ELSE htmlBody("HIT")
            /\ mailServed' = mailServed + 1
            /\ mpc' = "wait" /\ UNCHANGED mailCache
    /\ UNCHANGED mailReq
    /\ UNCHANGED <<ropVars, fetchVars, cacheVars, prodVars, analysisVars>>
    /\ UNCHANGED <<limiterVars, cursorVars, reorderVars, cronVars>>

\* lines 1684-1823: the report is built, cached unless debug, and sent
MailBuild ==
    /\ mpc = "build"
    /\ LET reportData == [keys |-> ReportDataKeys, filledBy |-> mailReq]
       IN  mailCache' = IF mailReq.debug THEN mailCache
                        ELSE [data |-> reportData, fresh |-> TRUE]
    /\ mailRes' = IF mailReq.email /\ ~mailReq.preview THEN missEmailBody
                  ELSE htmlBody("MISS")
    /\ mailServed' = mailServed + 1
    /\ mpc' = "wait"
    /\ UNCHANGED mailReq
    /\ UNCHANGED <<ropVars, fetchVars, cacheVars, prodVars, analysisVars>>
    /\ UNCHANGED <<limiterVars, cursorVars, reorderVars, cronVars>>

\* time passes until the entry is older than its TTL
MailEntryAges ==
    /\ mpc = "wait"
    /\ mailCache # NoObject /\ mailCache.fresh
    /\ mailCache' = [mailCache EXCEPT !.fresh = FALSE]
    /\ UNCHANGED <<mailReq, mailRes, mailServed, mpc>>
    /\ UNCHANGED <<ropVars, fetchVars, cacheVars, prodVars, analysisVars>>
    /\ UNCHANGED <<limiterVars, cursorVars, reorderVars, cronVars>>

NextMail == MailArrive \/ MailReadCache \/ MailBuild \/ MailEntryAges

SpecMail == InitMail /\ [][NextMail]_vars

EmailRequestAnswered ==
    mailRes # NoObject /\ mailReq.email /\ ~mailReq.preview

\* C27: for an email request (email=1, preview not set) the JSON body of a
\* cache hit has the shape of the body of a miss: success, stats and an email
\* object with subject, html and text, whichever request filled the entry.
EmailBodyHasTemplate ==
    EmailRequestAnswered =>
        /\ mailRes.contentType = "application/json"
        /\ {"success", "stats", "email"} \subseteq mailRes.keys
        /\ mailRes.emailKeys = {"subject", "html", "text"}

\* What holds instead: the body of a miss has that shape; the body of a hit is
\* the cached report data, which has no email field.
EmailBodyHasTemplateOnMiss ==
    EmailRequestAnswered =>
        /\ mailRes.contentType = "application/json"
        /\ {"success", "stats"} \subseteq mailRes.keys
        /\ mailRes.xcache = "MISS" =>
              "email" \in mailRes.keys /\ mailRes.emailKeys = {"subject", "html", "text"}
        /\ mailRes.xcache = "HIT" =>
              "email" \notin mailRes.keys /\ "rows" \in mailRes.keys

(***************************************************************************)
(* The cron (api/cron/smart-report.js): every run sends the daily report,  *)
(* a run on a Monday the weekly one, a run on the 1st the monthly one.     *)
(* Each is a POST to /api/send-sales-email, which asks /api/sales-report   *)
(* for the period; computeRange there takes the range from the shop's      *)
(* clock.  Instants are whole hours since 00:00 UTC of Monday 2024-01-01,  *)
(* the cron running at half past the hour.                                 *)
(***************************************************************************)
MaxCronDay == 98
FirstCronDay == 7

\* the schedule "30 14 * * *" of vercel.json, and a run asked for by hand at
\* 02:30 UTC
CronHours == {2, 14}

\* getShopTZ: America/Monterrey, six hours behind UTC
ShopOffsetHours == 6

\* smart-report.js line 12: Date.prototype.getDay, 0 = Sunday
getDay(t) == ((t \div 24) + 1) % 7

\* smart-report.js line 13: Date.prototype.getDate
getDate(t) == (t \div 24) - StartOfMonth(t \div 24) + 1

\* computeRange line 189: DateTime.now().setZone(tz)
shopNow(t) == t - ShopOffsetHours

\* sendReport -> send-sales-email.js lines 54-65 -> computeRange(period, today)
sentReport(type, today, t) ==
    LET range == computeRangeOn(type, today, shopNow(t) \div 24)
    IN  [type |-> type, success |-> TRUE,
         startDay |-> range.startDay, endDay |-> range.endDay]

\* smart-report.js lines 52-55: the send threw or answered success: false
failedReport(type) ==
    [type |-> type, success |-> FALSE, startDay |-> -1, endDay |-> -1]

InitCron ==
    /\ \E d \in FirstCronDay..MaxCronDay, h \in CronHours :
          cronNow = d * 24 + h
    /\ results = << >>
    /\ kpc = "daily"
    /\ IdleROP /\ IdleFetch /\ IdleCache /\ IdleProducts /\ IdleAnalysis
    /\ IdleLimiter /\ IdleCursor /\ IdleReorder /\ IdleMail

\* smart-report.js lines 41-55
SendDaily ==
    /\ kpc = "daily"
    /\ \E ok \in BOOLEAN :
          results' = Append(results, IF ok THEN sentReport("daily", FALSE, cronNow)
                                     ELSE failedReport("daily"))
    /\ kpc' = "weekly"
    /\ UNCHANGED cronNow
    /\ UNCHANGED <<ropVars, fetchVars, cacheVars, prodVars, analysisVars>>
    /\ UNCHANGED <<limiterVars, cursorVars, reorderVars, mailVars>>

\* smart-report.js lines 57-72
SendWeekly ==
    /\ kpc = "weekly"
    /\ IF getDay(cronNow) = 1
       THEN \E ok \in BOOLEAN :
               results' = Append(results,
                                 IF ok THEN sentReport("weekly", FALSE, cronNow)
                                 ELSE failedReport("weekly"))
       ELSE UNCHANGED results
    /\ kpc' = "monthly"
    /\ UNCHANGED cronNow
    /\ UNCHANGED <<ropVars, fetchVars, cacheVars, prodVars, analysisVars>>
    /\ UNCHANGED <<limiterVars, cursorVars, reorderVars, mailVars>>

\* smart-report.js lines 74-105
SendMonthly ==
    /\ kpc = "monthly"
    /\ IF getDate(cronNow) = 1
       THEN \E ok \in BOOLEAN :
               results' = Append(results,
                                 IF ok THEN sentReport("monthly", FALSE, cronNow)
                                 ELSE failedReport("monthly"))
       ELSE UNCHANGED results
    /\ kpc' = "done"
    /\ UNCHANGED cronNow
    /\ UNCHANGED <<ropVars, fetchVars, cacheVars, prodVars, analysisVars>>
    /\ UNCHANGED <<limiterVars, cursorVars, reorderVars, mailVars>>

NextCron == SendDaily \/ SendWeekly \/ SendMonthly

SpecCron == InitCron /\ [][NextCron]_vars

\* C29: the weekly report the cron sends on Monday covers the week just
\* completed and the monthly report it sends on the 1st covers the previous
\* month: the range computed for them ends before the day the cron runs.
CronReportsCoverCompletedPeriods ==
    \A i \in 1..Len(results) :
        (results[i].success /\ results[i].type \in {"weekly", "monthly"}) =>
            results[i].endDay < cronNow \div 24

\* What holds instead: the weekly and the monthly report cover the week and
\* the month the shop's clock is in when the cron runs, the daily report the
\* day before.
CronReportsCoverCurrentPeriods ==
    \A i \in 1..Len(results) :
        LET d == shopNow(cronNow) \div 24
            r == results[i]
        IN  r.success =>
                /\ r.type = "daily" => r.startDay = d - 1 /\ r.endDay = d - 1
                /\ r.type # "daily" => r.startDay <= d /\ d <= r.endDay
                /\ r.type = "weekly" => r.endDay = r.startDay + 6

(***************************************************************************)
(* Dead stock in a daily run: handler lines 1688-1698.  The shop's paid    *)
(* orders of the lookback window are one order of one line per page; some  *)
(* of them fall in the report period (yesterday or today), which lies in   *)
(* the window (detectDeadStock lines 614-618, computeRange lines 192-201). *)
(* The handler collects the orders of the period, takes the variants of    *)
(* their lines as candidates and hands them to detectDeadStock.            *)
(***************************************************************************)
MaxWindowOrders == 3

\* the candidates taken from the whole catalog instead of the period's orders
reportVariantIdsOfCatalog(pages, inPeriod, reportFailAt) ==
    [v \in 1..NumDeadVariants |-> v]

\* handler lines 1688-1691: the orders of the period that were collected (all
\* of them, or those before a failed page), and the variants of their lines in
\* the order of first appearance
reportVariantIds(pages, inPeriod, reportFailAt) ==
    LET InPeriod(i) == i \in inPeriod
        sel == SelectSeq([i \in 1..Len(pages) |-> i], InPeriod)
        periodOrders == [i \in 1..Len(sel) |-> pages[sel[i]]]
    IN  Dedupe(collectedPages(periodOrders, reportFailAt))

InitDaily ==
    /\ \E pages \in SeqsUpTo(0..NumDeadVariants, MaxWindowOrders),
          lv \in DeadLevelWorlds, fails \in {{}, {<<"variant", 1>>}} :
         \E inPeriod \in SUBSET (1..Len(pages)), failAt \in 0..Len(pages) :
            deadIn = [variantIds |-> << >>, period |-> "daily", pages |-> pages,
                      failAt |-> failAt, levels |-> lv, fails |-> fails,
                      inPeriod |-> inPeriod]
    /\ deadStock = << >> /\ dpc = "report"
    /\ abcIn = << >> /\ abcData = << >> /\ apc = "idle"
    /\ IdleROP /\ IdleFetch /\ IdleCache /\ IdleProducts /\ IdleLimiter
    /\ IdleCursor /\ IdleReorder /\ IdleMail /\ IdleCron

\* handler lines 1688-1691
CollectReportOrders ==
    /\ dpc = "report"
    /\ \E reportFailAt \in 0..Cardinality(deadIn.inPeriod) :
          deadIn' = [deadIn EXCEPT !.variantIds =
                        reportVariantIds(deadIn.pages, deadIn.inPeriod, reportFailAt)]
    /\ dpc' = "input"
    /\ UNCHANGED <<abcIn, abcData, apc, deadStock>>
    /\ UNCHANGED <<ropVars, fetchVars, cacheVars, prodVars, limiterVars>>
    /\ UNCHANGED <<cursorVars, reorderVars, mailVars, cronVars>>

NextDaily == CollectReportOrders \/ CallDetectDeadStock

SpecDaily == InitDaily /\ [][NextDaily]_vars

\* the variants sold by the orders of the report period
SoldInPeriod == {deadIn.pages[i] : i \in deadIn.inPeriod} \ {NoId}

Candidates == {deadIn.variantIds[i] : i \in 1..Len(deadIn.variantIds)}

DeadStockFromIncompleteFetch ==
    /\ dpc = "done" /\ deadIn.failAt # 0
    /\ \E i \in 1..Len(deadStock) : deadStock[i].variantId \in SoldInPeriod

====
